---- MODULE Spec2Model ----
(***************************************************************************)
(* ProcuraHub procurement workflow: purchase requests, RFQs, invitations   *)
(* and the quotation award protocol, modelled from backend/app.            *)
(*                                                                         *)
(* The database tables are the state.  Every HTTP handler is one action:   *)
(* it runs inside one session (database.get_db), so a handler that raises  *)
(* HTTPException rolls back everything it wrote (the leading deadline      *)
(* sweep included) and a handler that returns commits.  Time is a counter  *)
(* of instants (hours, UTC).  The default database is SQLite, which keeps  *)
(* the wall-clock fields of a datetime and drops its offset: a stored      *)
(* timestamp is the wall-clock number its writer produced, and every       *)
(* reader attaches the zone it assumes.                                    *)
(***************************************************************************)
EXTENDS Integers, Sequences, FiniteSets, TLC

\* ------------------------------------------------------------------ bounds
NumSuppliers == 2
MaxRfqs == 1
MaxRequests == 1
MaxTime == 3
MaxAmount == 1
MaxJustLen == 4
MaxInvPerPair == 2
MaxTotal == 2
MaxConcurrentRfqs == 2

\* --------------------------------------------------------------- constants
\* config.Settings.invitation_batch_size
invitation_batch_size == 25
\* Africa/Cairo standard time is two hours ahead of UTC.
cairo_utcoffset == 2

NoTime == 0 - 1
NoUser == "NULL"
NoId == 0

SupplierIds == 1..NumSuppliers
UnknownSupplierId == NumSuppliers + 1
RfqIds == 1..MaxRfqs
Times == 0..MaxTime
Deadlines == 1..(MaxTime + 1)
Amounts == 1..MaxAmount
\* Budget amounts of a procurement approval, in thousandths: zero, a positive
\* amount below half a hundredth, and one hundredth.
BudgetInputs == {0, 4, 10}

\* models/user.py UserRole
UserRole == {"SuperAdmin", "Procurement", "ProcurementOfficer", "HeadOfDepartment",
             "Requester", "Finance", "Supplier"}

\* One staff user per role, plus a second head of department who heads no
\* department.  A staff user's id is its name.
Users == {"SuperAdmin", "Procurement", "ProcurementOfficer", "HeadOfDepartment",
          "OtherHead", "Requester", "Finance"}

Role(u) == IF u = "OtherHead" THEN "HeadOfDepartment" ELSE u

\* models/rfq.py RFQStatus, QuotationStatus; models/request.py RequestStatus
RFQStatus == {"draft", "open", "closed", "awarded"}
QuotationStatus == {"draft", "submitted", "pending_finance_approval", "approved", "rejected"}
RequestStatus == {"pending_hod", "rejected_by_hod", "pending_procurement",
                  "rejected_by_procurement", "pending_finance_approval",
                  "rejected_by_finance", "finance_approved", "rfq_issued", "completed"}

\* Reference data: categories and the suppliers registered under each
\* (supplier_categories rows), departments and their heads.
Categories == {"X", "Y"}
SupplierCategory(s) == IF s = 1 THEN {"X", "Y"} ELSE {"X"}
Departments == {1}
head_of_department_id(d) == "HeadOfDepartment"

\* Override justification texts are sequences of tokens.
Justifications == {<<"J">>}
NoJustification == <<>>
FinanceApprovalTag == "[Finance Approval]"

VARIABLES
    now,            \* the clock
    requests,       \* purchase_requests rows, id = index
    rfqs,           \* rfqs rows, id = index
    invitations,    \* rfq_invitations rows per (rfq, supplier), in id order
    quotations,     \* rfq_quotations rows, id = index
    suppliers,      \* supplier_profiles fairness fields
    resp,           \* the last operation and its response
    everApproved,   \* history: ids of quotations that have been approved
    txn             \* approve requests in flight, one per concurrent session

dbvars == <<requests, rfqs, invitations, quotations, suppliers>>
vars == <<now, requests, rfqs, invitations, quotations, suppliers, resp, everApproved, txn>>

\* ----------------------------------------------------------------- helpers
Range(s) == {s[i] : i \in DOMAIN s}

Response(op, actor, code, detail, rfq_id, quotation_id, justified, shown) ==
    [op |-> op, actor |-> actor, code |-> code, detail |-> detail,
     rfq_id |-> rfq_id, quotation_id |-> quotation_id,
     justified |-> justified, quotations |-> shown]

\* Concurrent sessions and the request each one is serving: the handler (op),
\* its arguments, what it has read so far (seen) and whether another session
\* committed between its reads and its own commit (overlapped).
Sessions == {1, 2}
IdleTxn == [state |-> "idle", op |-> "none", actor |-> NoUser, rfq_id |-> NoId,
            quotation_id |-> NoId, justification |-> NoJustification,
            supplier_id |-> NoId, amount |-> 0,
            request_id |-> NoId, supplier_ids |-> {}, deadline |-> NoTime,
            seen |-> [s \in SupplierIds |-> 0], overlapped |-> FALSE]

NoResponse == Response("none", NoUser, "200", "", NoId, NoId, FALSE, {})

FailKeepingSweep(op, actor, code, detail, rfq_id, quotation_id, justified) ==
    /\ resp' = Response(op, actor, code, detail, rfq_id, quotation_id, justified, {})
    /\ rfqs' = [i \in DOMAIN rfqs |->
                   IF rfqs[i].status = "open" /\ rfqs[i].deadline <= now
                   THEN [rfqs[i] EXCEPT !.status = "closed", !.response_locked = FALSE]
                   ELSE rfqs[i]]
    /\ UNCHANGED <<now, requests, invitations, quotations, suppliers, everApproved, txn>>

\* A handler that raised HTTPException: get_db rolls the session back.
Fail(op, actor, code, detail, rfq_id, quotation_id, justified) ==
    /\ resp' = Response(op, actor, code, detail, rfq_id, quotation_id, justified, {})
    /\ UNCHANGED <<now, requests, rfqs, invitations, quotations, suppliers, everApproved, txn>>

Init ==
    /\ now = 0
    /\ requests = <<>>
    /\ rfqs = <<>>
    /\ invitations = [p \in RfqIds \X SupplierIds |-> <<>>]
    /\ quotations = <<>>
    /\ suppliers = [s \in SupplierIds |->
                       [invitations_sent |-> 0, last_invited_at |-> NoTime,
                        total_awarded_value |-> 0]]
    /\ resp = NoResponse
    /\ everApproved = {}
    /\ txn = [p \in Sessions |-> IdleTxn]

CloseKeepingLock(R, t) ==
    [i \in DOMAIN R |->
        IF R[i].status = "open" /\ R[i].deadline <= t
        THEN [R[i] EXCEPT !.status = "closed"]
        ELSE R[i]]

\* Timestamps are instants of the clock in hours.  The default database
\* (SQLite) stores a datetime by its wall-clock fields and returns it without
\* time zone: a value written in UTC comes back as the same number, a value
\* written in Africa/Cairo comes back cairo_utcoffset later, and a reader that
\* takes a returned value for Africa/Cairo time sees the instant
\* cairo_utcoffset earlier than the returned number.
written_in_cairo(t) == t + cairo_utcoffset
read_as_cairo(stored) == stored - cairo_utcoffset
read_as_utc(stored) == stored

\* ---------------------------------------------------------- services/rfq.py
\* close_expired_rfqs: the rfqs table after the sweep at time t; a stored
\* deadline is taken for UTC.
close_expired_rfqs(R, t) ==
    [i \in DOMAIN R |->
        IF R[i].status = "open" /\ read_as_utc(R[i].deadline) <= t
        THEN [R[i] EXCEPT !.status = "closed", !.response_locked = FALSE]
        ELSE R[i]]

CountOpen(R, t) ==
    Cardinality({i \in DOMAIN R : R[i].status = "open"})

\* close_expired_rfqs' return value.
closed_count(R, t) ==
    Cardinality({i \in DOMAIN R : R[i].status = "open" /\ R[i].deadline <= t})

\* The ORDER BY of select_suppliers_for_rfq: invitations_sent ascending, then
\* last_invited_at ascending (NULL, here NoTime, first); ties by id.
SupplierBefore(S, a, b) ==
    \/ S[a].invitations_sent < S[b].invitations_sent
    \/ /\ S[a].invitations_sent = S[b].invitations_sent
       /\ \/ S[a].last_invited_at < S[b].last_invited_at
          \/ S[a].last_invited_at = S[b].last_invited_at /\ a < b

RECURSIVE OrderSuppliers(_, _)
OrderSuppliers(S, set) ==
    IF set = {} THEN <<>>
    ELSE LET first == CHOOSE a \in set : \A b \in set \ {a} : SupplierBefore(S, a, b)
         IN <<first>> \o OrderSuppliers(S, set \ {first})

select_suppliers_for_rfq(S, category, limit) ==
    LET ordered == OrderSuppliers(S, {s \in SupplierIds : category \in SupplierCategory(s)})
    IN IF limit > 0 /\ limit < Len(ordered) THEN SubSeq(ordered, 1, limit) ELSE ordered

\* A direct call of select_suppliers_for_rfq for a category and a limit
\* (0 stands for a limit that is None or zero); the response carries the list
\* returned.
call_select_suppliers_for_rfq(category, limit) ==
    /\ resp' = [op |-> "select_suppliers_for_rfq", actor |-> NoUser, code |-> "200",
                detail |-> category, rfq_id |-> NoId, quotation_id |-> NoId,
                justified |-> FALSE, quotations |-> {}, limit |-> limit,
                selected |-> select_suppliers_for_rfq(suppliers, category, limit)]
    /\ UNCHANGED <<now, requests, rfqs, invitations, quotations, suppliers, everApproved, txn>>

\* create_invitations: one new row per listed supplier, no check for an
\* existing invitation; returns the tables after the loop.
invitations_after_create(I, rfq_id, supplier_set) ==
    [p \in DOMAIN I |->
        IF p[1] = rfq_id /\ p[2] \in supplier_set THEN Append(I[p], "invited") ELSE I[p]]

suppliers_after_create(S, supplier_set, t) ==
    [s \in DOMAIN S |->
        IF s \in supplier_set
        THEN [S[s] EXCEPT !.invitations_sent = @ + 1, !.last_invited_at = t]
        ELSE S[s]]

\* Bound on the invitation rows per (rfq, supplier).
InvitationRoom(I, rfq_id, supplier_set) ==
    \A s \in supplier_set : Len(I[<<rfq_id, s>>]) < MaxInvPerPair

\* The count reported by the run of main that immediately precedes the
\* current state at the same clock reading; NoTime when the last operation
\* was anything else or the clock has moved since.
previous_run ==
    IF resp.op = "close_expired_rfqs" /\ resp.at = now
    THEN resp.closed_count
    ELSE NoTime

\* run_close_expired_rfqs.py main: the sweep alone, committed; the response
\* carries the count that main prints, the clock reading of the run and the
\* count of the run before it.
main ==
    /\ rfqs' = close_expired_rfqs(rfqs, now)
    /\ resp' = [op |-> "close_expired_rfqs", actor |-> NoUser, code |-> "200",
                detail |-> "", rfq_id |-> NoId, quotation_id |-> NoId,
                justified |-> FALSE, quotations |-> {},
                closed_count |-> closed_count(rfqs, now),
                at |-> now, previous |-> previous_run]
    /\ UNCHANGED <<now, requests, invitations, quotations, suppliers, everApproved, txn>>

\* ------------------------------------------------------------------ clock
Tick ==
    /\ now < MaxTime
    /\ now' = now + 1
    /\ UNCHANGED <<requests, rfqs, invitations, quotations, suppliers, resp, everApproved, txn>>

\* ------------------------------------------------------- routers/rfqs.py
\* _ensure_deadline_in_future: both sides are Africa/Cairo instants.
deadline_in_future(deadline, t) == deadline > t

NewRfq(status, deadline, category) ==
    [status |-> status, response_locked |-> FALSE, deadline |-> deadline,
     category |-> category]

\* POST /rfqs/; deadline is the instant the body names, stored as Africa/Cairo
\* wall-clock time.
create_rfq(actor, category, deadline, supplier_ids) ==
    LET swept == close_expired_rfqs(rfqs, now)
        initial_status == IF Role(actor) = "ProcurementOfficer" THEN "draft" ELSE "open"
        rfq_id == Len(rfqs) + 1
        found == supplier_ids \cap SupplierIds
        chosen == IF supplier_ids # {} THEN found
                  ELSE Range(select_suppliers_for_rfq(suppliers, category,
                                                      invitation_batch_size))
        invited == IF initial_status = "open" THEN chosen ELSE {}
    IN
    /\ Len(rfqs) < MaxRfqs
    /\ IF Role(actor) \notin {"Procurement", "ProcurementOfficer", "SuperAdmin"}
       THEN Fail("create_rfq", actor, "403", "role", NoId, NoId, FALSE)
       ELSE IF ~deadline_in_future(deadline, now)
       THEN Fail("create_rfq", actor, "400", "deadline", NoId, NoId, FALSE)
       ELSE IF initial_status = "open" /\ supplier_ids # {} /\ found # supplier_ids
       THEN Fail("create_rfq", actor, "400", "supplier_ids", NoId, NoId, FALSE)
       ELSE /\ rfqs' = Append(swept, NewRfq(initial_status, written_in_cairo(deadline),
                                            category))
            /\ invitations' = invitations_after_create(invitations, rfq_id, invited)
            /\ suppliers' = suppliers_after_create(suppliers, invited, now)
            /\ resp' = Response("create_rfq", actor, "201", initial_status, rfq_id, NoId,
                                FALSE, {})
            /\ UNCHANGED <<now, requests, quotations, everApproved, txn>>

\* approve_draft_rfq whose refusal of unknown supplier ids leaves the RFQ open.
ApproveDraftKeepingFlip(actor, rfq_id, supplier_ids) ==
    LET found == supplier_ids \cap SupplierIds
    IN
    IF Role(actor) \notin {"SuperAdmin", "Procurement"}
    THEN Fail("approve_draft_rfq", actor, "403", "role", rfq_id, NoId, FALSE)
    ELSE IF rfq_id \notin DOMAIN rfqs
    THEN Fail("approve_draft_rfq", actor, "404", "rfq", rfq_id, NoId, FALSE)
    ELSE IF rfqs[rfq_id].status # "draft"
    THEN Fail("approve_draft_rfq", actor, "400", "not_draft", rfq_id, NoId, FALSE)
    ELSE /\ found # supplier_ids
         /\ rfqs' = [rfqs EXCEPT ![rfq_id].status = "open"]
         /\ resp' = Response("approve_draft_rfq", actor, "400", "supplier_ids", rfq_id,
                             NoId, FALSE, {})
         /\ UNCHANGED <<now, requests, invitations, quotations, suppliers, everApproved, txn>>

ApproveDraftAnyStatus(actor, rfq_id, supplier_ids) ==
    LET chosen == Range(select_suppliers_for_rfq(suppliers, rfqs[rfq_id].category,
                                                 invitation_batch_size))
    IN
    IF Role(actor) \notin {"SuperAdmin", "Procurement"}
    THEN Fail("approve_draft_rfq", actor, "403", "role", rfq_id, NoId, FALSE)
    ELSE IF rfq_id \notin DOMAIN rfqs
    THEN Fail("approve_draft_rfq", actor, "404", "rfq", rfq_id, NoId, FALSE)
    ELSE /\ InvitationRoom(invitations, rfq_id, chosen)
         /\ rfqs' = [rfqs EXCEPT ![rfq_id].status = "open"]
         /\ invitations' = invitations_after_create(invitations, rfq_id, chosen)
         /\ suppliers' = suppliers_after_create(suppliers, chosen, now)
         /\ resp' = Response("approve_draft_rfq", actor, "200", "open", rfq_id, NoId,
                             FALSE, {})
         /\ UNCHANGED <<now, requests, quotations, everApproved, txn>>

\* POST /rfqs/{rfq_id}/approve-draft (no deadline sweep in this handler)
approve_draft_rfq(actor, rfq_id, supplier_ids) ==
    LET found == supplier_ids \cap SupplierIds
        chosen == IF supplier_ids # {} THEN found
                  ELSE Range(select_suppliers_for_rfq(suppliers, rfqs[rfq_id].category,
                                                      invitation_batch_size))
    IN
    IF Role(actor) \notin {"SuperAdmin", "Procurement"}
    THEN Fail("approve_draft_rfq", actor, "403", "role", rfq_id, NoId, FALSE)
    ELSE IF rfq_id \notin DOMAIN rfqs
    THEN Fail("approve_draft_rfq", actor, "404", "rfq", rfq_id, NoId, FALSE)
    ELSE IF rfqs[rfq_id].status # "draft"
    THEN Fail("approve_draft_rfq", actor, "400", "not_draft", rfq_id, NoId, FALSE)
    ELSE IF supplier_ids # {} /\ found # supplier_ids
    THEN Fail("approve_draft_rfq", actor, "400", "supplier_ids", rfq_id, NoId, FALSE)
    ELSE /\ InvitationRoom(invitations, rfq_id, chosen)
         /\ rfqs' = [rfqs EXCEPT ![rfq_id].status = "open"]
         /\ invitations' = invitations_after_create(invitations, rfq_id, chosen)
         /\ suppliers' = suppliers_after_create(suppliers, chosen, now)
         /\ resp' = Response("approve_draft_rfq", actor, "200", "open", rfq_id, NoId,
                             FALSE, {})
         /\ UNCHANGED <<now, requests, quotations, everApproved, txn>>

\* PUT /rfqs/{rfq_id}; an absent field of RFQUpdate is NoTime / "keep".
update_rfq(actor, rfq_id, deadline, status) ==
    LET swept == close_expired_rfqs(rfqs, now)
        with_deadline == IF deadline # NoTime
                         THEN [swept EXCEPT ![rfq_id].deadline = written_in_cairo(deadline)]
                         ELSE swept
        with_status == IF status # "keep"
                       THEN [with_deadline EXCEPT ![rfq_id].status = status]
                       ELSE with_deadline
    IN
    IF Role(actor) \notin {"Procurement", "SuperAdmin"}
    THEN Fail("update_rfq", actor, "403", "role", rfq_id, NoId, FALSE)
    ELSE IF rfq_id \notin DOMAIN rfqs
    THEN Fail("update_rfq", actor, "404", "rfq", rfq_id, NoId, FALSE)
    ELSE IF deadline # NoTime /\ ~deadline_in_future(deadline, now)
    THEN Fail("update_rfq", actor, "400", "deadline", rfq_id, NoId, FALSE)
    ELSE /\ rfqs' = with_status
         /\ resp' = Response("update_rfq", actor, "200", "", rfq_id, NoId, FALSE, {})
         /\ UNCHANGED <<now, requests, invitations, quotations, suppliers, everApproved, txn>>

NewQuotation(rfq_id, supplier_id, amount) ==
    [rfq_id |-> rfq_id, supplier_id |-> supplier_id, amount |-> amount,
     status |-> "submitted", approved_at |-> NoTime, approved_by_id |-> NoUser,
     budget_override_justification |-> NoJustification,
     finance_approval_requested_at |-> NoTime,
     finance_approval_requested_by_id |-> NoUser,
     delivery_status |-> "none", delivered_at |-> NoTime]

SubmitUnchecked(supplier_id, rfq_id, amount) ==
    /\ rfq_id \in DOMAIN rfqs
    /\ rfqs[rfq_id].status = "open"
    /\ rfqs[rfq_id].deadline > now
    /\ invitations[<<rfq_id, supplier_id>>] # <<>>
    /\ quotations' = Append(quotations, NewQuotation(rfq_id, supplier_id, amount))
    /\ invitations' = [invitations EXCEPT ![<<rfq_id, supplier_id>>][1] = "responded"]
    /\ rfqs' = [rfqs EXCEPT ![rfq_id].response_locked = TRUE]
    /\ resp' = Response("submit_quotation", "Supplier", "201", "", rfq_id,
                        Len(quotations) + 1, FALSE, {})
    /\ UNCHANGED <<now, requests, suppliers, everApproved, txn>>

SubmitInsertOnly(supplier_id, rfq_id, amount) ==
    /\ rfq_id \in DOMAIN rfqs
    /\ rfqs[rfq_id].status = "open"
    /\ rfqs[rfq_id].deadline > now
    /\ ~ \E i \in DOMAIN quotations :
             quotations[i].rfq_id = rfq_id /\ quotations[i].supplier_id = supplier_id
    /\ quotations' = Append(quotations, NewQuotation(rfq_id, supplier_id, amount))
    /\ resp' = Response("submit_quotation", "Supplier", "201", "", rfq_id,
                        Len(quotations) + 1, FALSE, {})
    /\ UNCHANGED <<now, requests, rfqs, invitations, suppliers, everApproved, txn>>

\* POST /rfqs/{rfq_id}/quotations, called by the user of supplier profile
\* supplier_id (get_current_supplier_profile).
submit_quotation(supplier_id, rfq_id, amount) ==
    LET swept == close_expired_rfqs(rfqs, now)
        rows == invitations[<<rfq_id, supplier_id>>]
    IN
    IF rfq_id \notin DOMAIN rfqs
    THEN Fail("submit_quotation", "Supplier", "404", "rfq", rfq_id, NoId, FALSE)
    ELSE IF swept[rfq_id].status # "open"
    THEN Fail("submit_quotation", "Supplier", "400", "not_open", rfq_id, NoId, FALSE)
    ELSE IF rows = <<>>
    THEN Fail("submit_quotation", "Supplier", "403", "not_invited", rfq_id, NoId, FALSE)
    ELSE IF \E i \in DOMAIN quotations :
                quotations[i].rfq_id = rfq_id /\ quotations[i].supplier_id = supplier_id
    THEN Fail("submit_quotation", "Supplier", "400", "duplicate", rfq_id, NoId, FALSE)
    ELSE /\ quotations' = Append(quotations, NewQuotation(rfq_id, supplier_id, amount))
         /\ invitations' = [invitations EXCEPT ![<<rfq_id, supplier_id>>][1] = "responded"]
         /\ rfqs' = [swept EXCEPT ![rfq_id].response_locked = TRUE]
         /\ resp' = Response("submit_quotation", "Supplier", "201", "", rfq_id,
                             Len(quotations) + 1, FALSE, {})
         /\ UNCHANGED <<now, requests, suppliers, everApproved, txn>>

QuotationExists(rfq_id, quotation_id) ==
    /\ quotation_id \in DOMAIN quotations
    /\ quotations[quotation_id].rfq_id = rfq_id

AnyActorElevated(actor) == TRUE

\* current_user.role in [UserRole.finance, UserRole.superadmin]
Elevated(actor) == Role(actor) \in {"Finance", "SuperAdmin"}

\* POST /rfqs/{rfq_id}/quotations/{quotation_id}/request-finance-approval
request_finance_approval(actor, rfq_id, quotation_id, justification) ==
    LET swept == close_expired_rfqs(rfqs, now)
    IN
    IF Role(actor) \notin {"Procurement", "SuperAdmin"}
    THEN Fail("request_finance_approval", actor, "403", "role", rfq_id, quotation_id, TRUE)
    ELSE IF ~QuotationExists(rfq_id, quotation_id)
    THEN Fail("request_finance_approval", actor, "404", "quotation", rfq_id, quotation_id, TRUE)
    ELSE IF quotations[quotation_id].status = "approved"
    THEN Fail("request_finance_approval", actor, "400", "already_approved", rfq_id,
              quotation_id, TRUE)
    ELSE IF quotations[quotation_id].status = "pending_finance_approval"
    THEN Fail("request_finance_approval", actor, "400", "already_requested", rfq_id,
              quotation_id, TRUE)
    ELSE /\ quotations' = [quotations EXCEPT ![quotation_id] =
                [@ EXCEPT !.status = "pending_finance_approval",
                          !.budget_override_justification = justification,
                          !.finance_approval_requested_at = now,
                          !.finance_approval_requested_by_id = actor]]
         /\ rfqs' = swept
         /\ resp' = Response("request_finance_approval", actor, "200",
                             "pending_finance_approval", rfq_id, quotation_id, TRUE, {})
         /\ UNCHANGED <<now, requests, invitations, suppliers, everApproved, txn>>

\* approve_quotation, lines 805-813: another quotation of the RFQ is approved.
existing_winner(Q, rfq_id, quotation_id) ==
    \E i \in DOMAIN Q :
        Q[i].rfq_id = rfq_id /\ Q[i].status = "approved" /\ i # quotation_id

\* approve_quotation, lines 878-886: the justification kept on the quotation.
combined_justification(existing, justification) ==
    IF justification = NoJustification THEN existing
    ELSE IF existing # NoJustification
         THEN existing \o <<FinanceApprovalTag>> \o justification
         ELSE justification

\* approve_quotation, lines 841-852 and 873-886: the quotations table after
\* the award of quotation_id.
quotations_after_award(Q, rfq_id, quotation_id, actor, justification, t) ==
    [i \in DOMAIN Q |->
        IF i = quotation_id
        THEN [Q[i] EXCEPT !.status = "approved", !.approved_at = t,
                          !.approved_by_id = actor,
                          !.budget_override_justification =
                              combined_justification(@, justification)]
        ELSE IF Q[i].rfq_id = rfq_id /\ Q[i].status # "rejected"
        THEN [Q[i] EXCEPT !.status = "rejected", !.approved_at = NoTime,
                          !.approved_by_id = NoUser]
        ELSE Q[i]]

\* approve_quotation, lines 858-871: the invitations after the award.
invitations_after_award(I, rfq_id, supplier_id) ==
    [p \in DOMAIN I |->
        IF p[1] # rfq_id THEN I[p]
        ELSE [k \in DOMAIN I[p] |->
                 IF p[2] = supplier_id THEN "awarded" ELSE "not_selected"]]

NoSourceRequest(rfq_id) == NoId

\* rfq.source_request (a list backref): the first request linked to the RFQ,
\* NoId when there is none.
source_request(rfq_id) ==
    LET linked == {i \in DOMAIN requests : requests[i].rfq_id = rfq_id}
    IN IF linked = {} THEN NoId ELSE CHOOSE i \in linked : \A j \in linked : i <= j

ApproveNaive(actor, rfq_id, quotation_id, justification) ==
    /\ QuotationExists(rfq_id, quotation_id)
    /\ Role(actor) \in {"Finance", "SuperAdmin", "Procurement"}
    /\ quotations' = [quotations EXCEPT ![quotation_id].status = "approved"]
    /\ resp' = Response("approve_quotation", actor, "200", "awarded", rfq_id,
                        quotation_id, justification # NoJustification, {})
    /\ everApproved' = everApproved \cup {quotation_id}
    /\ UNCHANGED <<now, requests, rfqs, invitations, suppliers, txn>>

\* POST /rfqs/{rfq_id}/quotations/{quotation_id}/approve
approve_quotation(actor, rfq_id, quotation_id, justification) ==
    LET swept == close_expired_rfqs(rfqs, now)
        justified == justification # NoJustification
        quotation == quotations[quotation_id]
        request_obj == source_request(rfq_id)
    IN
    IF Role(actor) \notin {"Finance", "SuperAdmin", "Procurement"}
    THEN Fail("approve_quotation", actor, "403", "role", rfq_id, quotation_id, justified)
    ELSE IF ~QuotationExists(rfq_id, quotation_id)
    THEN Fail("approve_quotation", actor, "404", "quotation", rfq_id, quotation_id, justified)
    ELSE IF quotation.status = "approved"
    THEN /\ rfqs' = swept
         /\ resp' = Response("approve_quotation", actor, "200", "already_approved",
                             rfq_id, quotation_id, justified, {})
         /\ UNCHANGED <<now, requests, invitations, quotations, suppliers, everApproved, txn>>
    ELSE IF quotation.status = "pending_finance_approval" /\ ~Elevated(actor)
    THEN Fail("approve_quotation", actor, "403", "pending_finance", rfq_id, quotation_id,
              justified)
    ELSE IF quotation.status # "pending_finance_approval" /\ justified /\ ~Elevated(actor)
    THEN Fail("approve_quotation", actor, "403", "override", rfq_id, quotation_id, justified)
    ELSE IF existing_winner(quotations, rfq_id, quotation_id)
    THEN Fail("approve_quotation", actor, "400", "already_awarded", rfq_id, quotation_id,
              justified)
    ELSE /\ Len(combined_justification(quotation.budget_override_justification,
                                       justification)) <= MaxJustLen
         /\ suppliers[quotation.supplier_id].total_awarded_value + quotation.amount
                <= MaxTotal
         /\ quotations' = quotations_after_award(quotations, rfq_id, quotation_id, actor,
                                                 justification, now)
         /\ invitations' = invitations_after_award(invitations, rfq_id,
                                                   quotation.supplier_id)
         /\ rfqs' = [swept EXCEPT ![rfq_id].status = "awarded"]
         /\ suppliers' = [suppliers EXCEPT ![quotation.supplier_id].total_awarded_value =
                              @ + quotation.amount]
         /\ requests' = IF request_obj # NoId
                        THEN [requests EXCEPT ![request_obj].status = "completed"]
                        ELSE requests
         /\ resp' = Response("approve_quotation", actor, "200", "awarded", rfq_id,
                             quotation_id, justified, {})
         /\ everApproved' = everApproved \cup {quotation_id}
         /\ UNCHANGED <<now, txn>>

\* POST /rfqs/{rfq_id}/quotations/{quotation_id}/reject (no deadline sweep)
reject_quotation(actor, rfq_id, quotation_id) ==
    IF Role(actor) \notin {"Finance", "SuperAdmin", "Procurement"}
    THEN Fail("reject_quotation", actor, "403", "role", rfq_id, quotation_id, FALSE)
    ELSE IF ~QuotationExists(rfq_id, quotation_id)
    THEN Fail("reject_quotation", actor, "404", "quotation", rfq_id, quotation_id, FALSE)
    ELSE IF quotations[quotation_id].status = "pending_finance_approval" /\ ~Elevated(actor)
    THEN Fail("reject_quotation", actor, "403", "pending_finance", rfq_id, quotation_id,
              FALSE)
    ELSE /\ quotations' = [quotations EXCEPT ![quotation_id].status = "rejected"]
         /\ resp' = Response("reject_quotation", actor, "200", "rejected", rfq_id,
                             quotation_id, FALSE, {})
         /\ UNCHANGED <<now, requests, rfqs, invitations, suppliers, everApproved, txn>>

\* POST /rfqs/{rfq_id}/quotations/{quotation_id}/mark-delivered; delivered_at
\* is the instant the form value denotes, has_note whether a delivery note is
\* attached.  approved_at was written in UTC by approve_quotation.
mark_quotation_delivered(actor, rfq_id, quotation_id, delivered_at, has_note) ==
    IF Role(actor) \notin {"Procurement", "SuperAdmin"}
    THEN Fail("mark_quotation_delivered", actor, "403", "role", rfq_id, quotation_id, FALSE)
    ELSE IF ~QuotationExists(rfq_id, quotation_id)
    THEN Fail("mark_quotation_delivered", actor, "404", "quotation", rfq_id, quotation_id,
              FALSE)
    ELSE IF quotations[quotation_id].status # "approved"
    THEN Fail("mark_quotation_delivered", actor, "400", "not_approved", rfq_id,
              quotation_id, FALSE)
    ELSE IF /\ quotations[quotation_id].approved_at # NoTime
            /\ delivered_at <= read_as_cairo(quotations[quotation_id].approved_at)
    THEN Fail("mark_quotation_delivered", actor, "400", "before_approval", rfq_id,
              quotation_id, FALSE)
    ELSE IF ~has_note
    THEN Fail("mark_quotation_delivered", actor, "400", "no_note", rfq_id, quotation_id,
              FALSE)
    ELSE /\ quotations' = [quotations EXCEPT
                               ![quotation_id].delivery_status = "delivered",
                               ![quotation_id].delivered_at = written_in_cairo(delivered_at)]
         /\ resp' = Response("mark_quotation_delivered", actor, "200", "delivered", rfq_id,
                             quotation_id, FALSE, {})
         /\ UNCHANGED <<now, requests, rfqs, invitations, suppliers, everApproved, txn>>

\* ---- approve_quotation as two sessions run it side by side ----
\* No isolation level, row lock or unique constraint is configured
\* (database.py, lines 9-20), so a request's statements see whatever is
\* committed when they execute.  A request is split where another session's
\* commit can fall: after the existing_winner query (line 818) and before the
\* statements that read the siblings and write the award (lines 820-900).

\* approve_quotation, lines 775-818, in session p.
approve_check(p, actor, rfq_id, quotation_id, justification) ==
    LET justified == justification # NoJustification
        quotation == quotations[quotation_id]
        request == [IdleTxn EXCEPT !.op = "approve_quotation", !.actor = actor,
                                   !.rfq_id = rfq_id, !.quotation_id = quotation_id,
                                   !.justification = justification]
        refuse(code, detail) ==
            /\ resp' = Response("approve_quotation", actor, code, detail, rfq_id,
                                quotation_id, justified, {})
            /\ txn' = [txn EXCEPT ![p] = [request EXCEPT !.state = "failed"]]
            /\ UNCHANGED <<now, requests, rfqs, invitations, quotations, suppliers,
                           everApproved>>
    IN
    /\ txn[p].state = "idle"
    /\ IF Role(actor) \notin {"Finance", "SuperAdmin", "Procurement"}
       THEN refuse("403", "role")
       ELSE IF ~QuotationExists(rfq_id, quotation_id)
       THEN refuse("404", "quotation")
       ELSE IF quotation.status = "approved"
       THEN /\ rfqs' = close_expired_rfqs(rfqs, now)
            /\ resp' = Response("approve_quotation", actor, "200", "already_approved",
                                rfq_id, quotation_id, justified, {})
            /\ txn' = [txn EXCEPT ![p] = [request EXCEPT !.state = "returned"]]
            /\ UNCHANGED <<now, requests, invitations, quotations, suppliers,
                           everApproved>>
       ELSE IF quotation.status = "pending_finance_approval" /\ ~Elevated(actor)
       THEN refuse("403", "pending_finance")
       ELSE IF quotation.status # "pending_finance_approval" /\ justified
               /\ ~Elevated(actor)
       THEN refuse("403", "override")
       ELSE IF existing_winner(quotations, rfq_id, quotation_id)
       THEN refuse("400", "already_awarded")
       ELSE /\ txn' = [txn EXCEPT ![p] = [request EXCEPT !.state = "checked"]]
            /\ UNCHANGED <<now, requests, rfqs, invitations, quotations, suppliers, resp,
                           everApproved>>

\* approve_quotation, lines 820-900, in session p: the sibling cascade, the
\* award and the commit.  Every session that has passed its checks and not yet
\* committed is marked as overlapped by this commit.
approve_commit(p) ==
    LET request == txn[p]
        quotation == quotations[request.quotation_id]
        request_obj == source_request(request.rfq_id)
    IN
    /\ request.state = "checked"
    /\ request.op = "approve_quotation"
    /\ Len(combined_justification(quotation.budget_override_justification,
                                  request.justification)) <= MaxJustLen
    /\ suppliers[quotation.supplier_id].total_awarded_value + quotation.amount <= MaxTotal
    /\ quotations' = quotations_after_award(quotations, request.rfq_id,
                                            request.quotation_id, request.actor,
                                            request.justification, now)
    /\ invitations' = invitations_after_award(invitations, request.rfq_id,
                                              quotation.supplier_id)
    /\ rfqs' = [close_expired_rfqs(rfqs, now) EXCEPT ![request.rfq_id].status = "awarded"]
    /\ suppliers' = [suppliers EXCEPT ![quotation.supplier_id].total_awarded_value =
                         @ + quotation.amount]
    /\ requests' = IF request_obj # NoId
                   THEN [requests EXCEPT ![request_obj].status = "completed"]
                   ELSE requests
    /\ resp' = Response("approve_quotation", request.actor, "200", "awarded",
                        request.rfq_id, request.quotation_id,
                        request.justification # NoJustification, {})
    /\ everApproved' = everApproved \cup {request.quotation_id}
    /\ txn' = [q \in Sessions |->
                  IF q = p THEN [request EXCEPT !.state = "committed"]
                  ELSE IF txn[q].state = "checked"
                  THEN [txn[q] EXCEPT !.overlapped = TRUE]
                  ELSE txn[q]]
    /\ UNCHANGED now

\* ---- submit_quotation as two sessions run it side by side ----
\* rfq_quotations has no unique constraint on (rfq_id, supplier_id)
\* (models/rfq.py, lines 83-93).  A request is split after the
\* existing_quotation query (line 637) and before the insert (lines 639-676).

\* submit_quotation, lines 606-637, in session p.
submit_check(p, supplier_id, rfq_id, amount) ==
    LET swept == close_expired_rfqs(rfqs, now)
        request == [IdleTxn EXCEPT !.op = "submit_quotation", !.actor = "Supplier",
                                   !.rfq_id = rfq_id, !.supplier_id = supplier_id,
                                   !.amount = amount]
        refuse(code, detail) ==
            /\ resp' = Response("submit_quotation", "Supplier", code, detail, rfq_id,
                                NoId, FALSE, {})
            /\ txn' = [txn EXCEPT ![p] = [request EXCEPT !.state = "failed"]]
            /\ UNCHANGED <<now, requests, rfqs, invitations, quotations, suppliers,
                           everApproved>>
    IN
    /\ txn[p].state = "idle"
    /\ IF rfq_id \notin DOMAIN rfqs
       THEN refuse("404", "rfq")
       ELSE IF swept[rfq_id].status # "open"
       THEN refuse("400", "not_open")
       ELSE IF invitations[<<rfq_id, supplier_id>>] = <<>>
       THEN refuse("403", "not_invited")
       ELSE IF \E i \in DOMAIN quotations :
                   quotations[i].rfq_id = rfq_id /\ quotations[i].supplier_id = supplier_id
       THEN refuse("400", "duplicate")
       ELSE /\ txn' = [txn EXCEPT ![p] = [request EXCEPT !.state = "checked"]]
            /\ UNCHANGED <<now, requests, rfqs, invitations, quotations, suppliers, resp,
                           everApproved>>

\* submit_quotation, lines 639-676, in session p: the insert, the invitation
\* update, the lock and the commit.  Nothing at the commit looks for a
\* quotation of the same supplier again.
submit_commit(p) ==
    LET request == txn[p]
    IN
    /\ request.state = "checked"
    /\ request.op = "submit_quotation"
    /\ Len(quotations) < MaxRfqs * NumSuppliers
    /\ quotations' = Append(quotations, NewQuotation(request.rfq_id, request.supplier_id,
                                                     request.amount))
    /\ invitations' = [invitations EXCEPT
                           ![<<request.rfq_id, request.supplier_id>>][1] = "responded"]
    /\ rfqs' = [rfqs EXCEPT ![request.rfq_id].response_locked = TRUE]
    /\ resp' = Response("submit_quotation", "Supplier", "201", "", request.rfq_id,
                        Len(quotations) + 1, FALSE, {})
    /\ txn' = [q \in Sessions |->
                  IF q = p THEN [request EXCEPT !.state = "committed"]
                  ELSE IF txn[q].state = "checked"
                  THEN [txn[q] EXCEPT !.overlapped = TRUE]
                  ELSE txn[q]]
    /\ UNCHANGED <<now, requests, suppliers, everApproved>>

\* Ids of the quotations of an RFQ (RFQ.quotations).
QuotationsOf(rfq_id) == {i \in DOMAIN quotations : quotations[i].rfq_id = rfq_id}

\* read_rfq, lines 512-523: the read-time deadline check; a stored deadline is
\* taken for Africa/Cairo time.
deadline_passed(deadline, t) == read_as_cairo(deadline) < t

\* GET /rfqs/{rfq_id}
read_rfq(actor, rfq_id) ==
    LET swept == close_expired_rfqs(rfqs, now)
        rfq == swept[rfq_id]
        passed == deadline_passed(rfq.deadline, now)
        unlock == passed /\ rfq.response_locked
        response_locked == rfq.response_locked /\ ~unlock
    IN
    IF Role(actor) \notin {"SuperAdmin", "Procurement", "ProcurementOfficer", "Requester",
                           "Finance"}
    THEN Fail("read_rfq", actor, "403", "role", rfq_id, NoId, FALSE)
    ELSE IF rfq_id \notin DOMAIN rfqs
    THEN Fail("read_rfq", actor, "404", "rfq", rfq_id, NoId, FALSE)
    ELSE /\ rfqs' = IF unlock THEN [swept EXCEPT ![rfq_id].response_locked = FALSE]
                    ELSE swept
         /\ resp' = Response("read_rfq", actor, "200", "", rfq_id, NoId, FALSE,
                             IF response_locked /\ ~passed THEN {}
                             ELSE QuotationsOf(rfq_id))
         /\ UNCHANGED <<now, requests, invitations, quotations, suppliers, everApproved, txn>>

\* GET /rfqs/ (RFQRead carries no quotations)
list_rfqs(actor) ==
    IF Role(actor) \notin {"SuperAdmin", "Procurement", "ProcurementOfficer", "Requester",
                           "Finance"}
    THEN Fail("list_rfqs", actor, "403", "role", NoId, NoId, FALSE)
    ELSE /\ rfqs' = close_expired_rfqs(rfqs, now)
         /\ resp' = Response("list_rfqs", actor, "200", "", NoId, NoId, FALSE, {})
         /\ UNCHANGED <<now, requests, invitations, quotations, suppliers, everApproved, txn>>

\* GET /rfqs/pending-finance-approvals
list_rfqs_with_pending_finance_approvals(actor) ==
    LET has_pending(r) == \E i \in QuotationsOf(r) :
                              quotations[i].status = "pending_finance_approval"
    IN
    IF Role(actor) \notin {"Finance", "SuperAdmin"}
    THEN Fail("list_pending_finance_approvals", actor, "403", "role", NoId, NoId, FALSE)
    ELSE /\ rfqs' = close_expired_rfqs(rfqs, now)
         /\ resp' = Response("list_pending_finance_approvals", actor, "200", "", NoId, NoId,
                             FALSE,
                             UNION {QuotationsOf(r) : r \in {x \in DOMAIN rfqs : has_pending(x)}})
         /\ UNCHANGED <<now, requests, invitations, quotations, suppliers, everApproved, txn>>

\* GET /rfqs/finance-approved
list_finance_approved_rfqs(actor) ==
    LET swept == close_expired_rfqs(rfqs, now)
        went_through_finance(r) ==
            /\ swept[r].status = "awarded"
            /\ \E i \in QuotationsOf(r) : quotations[i].status = "approved"
            /\ LET first == CHOOSE i \in QuotationsOf(r) :
                                /\ quotations[i].status = "approved"
                                /\ \A j \in QuotationsOf(r) :
                                       quotations[j].status = "approved" => i <= j
               IN quotations[first].finance_approval_requested_at # NoTime
    IN
    IF Role(actor) \notin {"Finance", "SuperAdmin"}
    THEN Fail("list_finance_approved", actor, "403", "role", NoId, NoId, FALSE)
    ELSE /\ rfqs' = swept
         /\ resp' = Response("list_finance_approved", actor, "200", "", NoId, NoId, FALSE,
                             UNION {QuotationsOf(r) :
                                        r \in {x \in DOMAIN rfqs : went_through_finance(x)}})
         /\ UNCHANGED <<now, requests, invitations, quotations, suppliers, everApproved, txn>>

\* --------------------------------------------------- routers/requests.py
NewRequest(category, department_id) ==
    [status |-> "pending_hod", category |-> category, department_id |-> department_id,
     proposed_budget_amount |-> 0, finance_budget_amount |-> NoTime, rfq_id |-> NoId,
     hod_reviewer_id |-> NoUser]

\* POST /requests/
create_request(actor, category, department_id) ==
    /\ Len(requests) < MaxRequests
    /\ IF Role(actor) \notin {"Requester", "SuperAdmin"}
       THEN Fail("create_request", actor, "403", "role", NoId, NoId, FALSE)
       ELSE IF department_id \notin Departments
       THEN Fail("create_request", actor, "404", "department", NoId, NoId, FALSE)
       ELSE /\ requests' = Append(requests, NewRequest(category, department_id))
            /\ resp' = Response("create_request", actor, "201", "", NoId, NoId, FALSE, {})
            /\ UNCHANGED <<now, rfqs, invitations, quotations, suppliers, everApproved, txn>>

ReviewByAnyHead(op, actor, request_id, roles, from, heads_only, updated) ==
    IF Role(actor) \notin roles
    THEN Fail(op, actor, "403", "role", NoId, NoId, FALSE)
    ELSE IF request_id \notin DOMAIN requests
    THEN Fail(op, actor, "404", "request", NoId, NoId, FALSE)
    ELSE IF requests[request_id].status # from
    THEN Fail(op, actor, "400", "status", NoId, NoId, FALSE)
    ELSE /\ requests' = [requests EXCEPT ![request_id] = updated]
         /\ resp' = Response(op, actor, "200", updated.status, NoId, NoId, FALSE, {})
         /\ UNCHANGED <<now, rfqs, invitations, quotations, suppliers, everApproved, txn>>

\* The status write shared by the review handlers.
ReviewRequest(op, actor, request_id, roles, from, heads_only, updated) ==
    IF Role(actor) \notin roles
    THEN Fail(op, actor, "403", "role", NoId, NoId, FALSE)
    ELSE IF request_id \notin DOMAIN requests
    THEN Fail(op, actor, "404", "request", NoId, NoId, FALSE)
    ELSE IF requests[request_id].status # from
    THEN Fail(op, actor, "400", "status", NoId, NoId, FALSE)
    ELSE IF /\ heads_only
            /\ Role(actor) # "SuperAdmin"
            /\ \/ requests[request_id].department_id \notin Departments
               \/ head_of_department_id(requests[request_id].department_id) # actor
    THEN Fail(op, actor, "403", "not_head", NoId, NoId, FALSE)
    ELSE /\ requests' = [requests EXCEPT ![request_id] = updated]
         /\ resp' = Response(op, actor, "200", updated.status, NoId, NoId, FALSE, {})
         /\ UNCHANGED <<now, rfqs, invitations, quotations, suppliers, everApproved, txn>>

\* PUT /requests/{request_id}/hod-approve
hod_approve_request(actor, request_id) ==
    ReviewRequest("hod_approve_request", actor, request_id,
                  {"HeadOfDepartment", "SuperAdmin"}, "pending_hod", TRUE,
                  [requests[request_id] EXCEPT !.status = "pending_procurement",
                                               !.hod_reviewer_id = actor])

\* PUT /requests/{request_id}/hod-reject
hod_reject_request(actor, request_id) ==
    ReviewRequest("hod_reject_request", actor, request_id,
                  {"HeadOfDepartment", "SuperAdmin"}, "pending_hod", TRUE,
                  [requests[request_id] EXCEPT !.status = "rejected_by_hod",
                                               !.hod_reviewer_id = actor])

ApproveToFinance(actor, request_id, budget_amount) ==
    ReviewRequest("approve_request", actor, request_id,
                  {"Procurement", "SuperAdmin"}, "pending_procurement", FALSE,
                  [requests[request_id] EXCEPT !.status = "pending_finance_approval",
                                               !.proposed_budget_amount = budget_amount])

\* The Numeric(14, 2) column of proposed_budget_amount: an amount given in
\* thousandths is stored, and read back, in hundredths, rounded half up.
quantize(amount) == (amount + 5) \div 10

\* PUT /requests/{request_id}/approve; budget_amount, in thousandths, is
\* validated gt=0 when the body is parsed, after the role check.
approve_request(actor, request_id, budget_amount) ==
    IF Role(actor) \in {"Procurement", "SuperAdmin"} /\ budget_amount <= 0
    THEN Fail("approve_request", actor, "422", "budget_amount", NoId, NoId, FALSE)
    ELSE ReviewRequest("approve_request", actor, request_id,
                       {"Procurement", "SuperAdmin"}, "pending_procurement", FALSE,
                       [requests[request_id] EXCEPT
                           !.status = "rfq_issued",
                           !.proposed_budget_amount = quantize(budget_amount)])

\* PUT /requests/{request_id}/deny
deny_request(actor, request_id) ==
    ReviewRequest("deny_request", actor, request_id,
                  {"Procurement", "SuperAdmin"}, "pending_procurement", FALSE,
                  [requests[request_id] EXCEPT !.status = "rejected_by_procurement"])

\* PUT /requests/{request_id}/finance/approve (no budget in the payload)
finance_approve_request(actor, request_id) ==
    ReviewRequest("finance_approve_request", actor, request_id,
                  {"Finance", "SuperAdmin"}, "pending_finance_approval", FALSE,
                  [requests[request_id] EXCEPT
                      !.status = "finance_approved",
                      !.finance_budget_amount = requests[request_id].proposed_budget_amount])

\* PUT /requests/{request_id}/finance/reject
finance_reject_request(actor, request_id) ==
    ReviewRequest("finance_reject_request", actor, request_id,
                  {"Finance", "SuperAdmin"}, "pending_finance_approval", FALSE,
                  [requests[request_id] EXCEPT !.status = "rejected_by_finance"])

InviteKnownOnly(actor, request_id, supplier_ids, deadline) ==
    LET request_obj == requests[request_id]
        reuse == request_obj.rfq_id # NoId /\ request_obj.rfq_id \in DOMAIN rfqs
        rfq_id == IF reuse THEN request_obj.rfq_id ELSE Len(rfqs) + 1
        new_suppliers == {s \in supplier_ids \cap SupplierIds : invitations[<<rfq_id, s>>] = <<>>}
    IN
    IF Role(actor) \notin {"Procurement", "SuperAdmin"}
    THEN Fail("invite_suppliers", actor, "403", "role", NoId, NoId, FALSE)
    ELSE IF request_id \notin DOMAIN requests
    THEN Fail("invite_suppliers", actor, "404", "request", NoId, NoId, FALSE)
    ELSE IF request_obj.status \notin {"finance_approved", "rfq_issued"}
    THEN Fail("invite_suppliers", actor, "400", "status", NoId, NoId, FALSE)
    ELSE IF supplier_ids = {} \/ deadline <= now \/ new_suppliers = {}
    THEN Fail("invite_suppliers", actor, "400", "refused", NoId, NoId, FALSE)
    ELSE /\ reuse \/ Len(rfqs) < MaxRfqs
         /\ rfqs' = IF reuse
                    THEN [rfqs EXCEPT ![rfq_id].deadline = deadline, ![rfq_id].status = "open"]
                    ELSE Append(rfqs, NewRfq("open", deadline, request_obj.category))
         /\ invitations' = invitations_after_create(invitations, rfq_id, new_suppliers)
         /\ suppliers' = suppliers_after_create(suppliers, new_suppliers, now)
         /\ requests' = [requests EXCEPT ![request_id].rfq_id = rfq_id,
                                         ![request_id].status = "rfq_issued"]
         /\ resp' = Response("invite_suppliers", actor, "200", "rfq_issued", rfq_id,
                             NoId, FALSE, {})
         /\ UNCHANGED <<now, quotations, everApproved, txn>>

\* POST /requests/{request_id}/invite-suppliers (no deadline sweep); the
\* deadline is stored as UTC wall-clock time.
invite_suppliers(actor, request_id, supplier_ids, deadline) ==
    LET request_obj == requests[request_id]
        reuse == request_obj.rfq_id # NoId /\ request_obj.rfq_id \in DOMAIN rfqs
        rfq_id == IF reuse THEN request_obj.rfq_id ELSE Len(rfqs) + 1
        existing_invited_ids == {s \in SupplierIds : invitations[<<rfq_id, s>>] # <<>>}
        new_suppliers == supplier_ids \ existing_invited_ids
    IN
    IF Role(actor) \notin {"Procurement", "SuperAdmin"}
    THEN Fail("invite_suppliers", actor, "403", "role", NoId, NoId, FALSE)
    ELSE IF request_id \notin DOMAIN requests
    THEN Fail("invite_suppliers", actor, "404", "request", NoId, NoId, FALSE)
    ELSE IF request_obj.status \notin {"finance_approved", "rfq_issued"}
    THEN Fail("invite_suppliers", actor, "400", "status", NoId, NoId, FALSE)
    ELSE IF supplier_ids = {}
    THEN Fail("invite_suppliers", actor, "400", "no_suppliers", NoId, NoId, FALSE)
    ELSE IF deadline <= now
    THEN Fail("invite_suppliers", actor, "400", "deadline", NoId, NoId, FALSE)
    ELSE IF supplier_ids \ SupplierIds # {}
    THEN Fail("invite_suppliers", actor, "404", "supplier", NoId, NoId, FALSE)
    ELSE /\ reuse \/ Len(rfqs) < MaxRfqs
         /\ IF new_suppliers = {}
            THEN Fail("invite_suppliers", actor, "400", "all_invited", rfq_id, NoId, FALSE)
            ELSE /\ rfqs' = IF reuse
                            THEN [rfqs EXCEPT ![rfq_id].deadline = deadline,
                                              ![rfq_id].status = "open"]
                            ELSE Append(rfqs, NewRfq("open", deadline, request_obj.category))
                 /\ invitations' = invitations_after_create(invitations, rfq_id, new_suppliers)
                 /\ suppliers' = suppliers_after_create(suppliers, new_suppliers, now)
                 /\ requests' = [requests EXCEPT ![request_id].rfq_id = rfq_id,
                                                 ![request_id].status = "rfq_issued"]
                 /\ resp' = Response("invite_suppliers", actor, "200", "rfq_issued", rfq_id,
                                     NoId, FALSE, {})
                 /\ UNCHANGED <<now, quotations, everApproved, txn>>

\* ------------------------------------------------------------ the system
\* Inputs: the roles each endpoint admits and one it refuses.
QuotationActors == {"Procurement", "Finance", "SuperAdmin", "ProcurementOfficer"}
RfqActors == {"Procurement", "ProcurementOfficer", "SuperAdmin", "Finance"}
RequestActors == {"Requester", "HeadOfDepartment", "OtherHead", "Procurement", "SuperAdmin"}
QuotationIds == 1..(MaxRfqs * NumSuppliers)
RequestIds == 1..MaxRequests
SupplierIdSets == SUBSET (SupplierIds \cup {UnknownSupplierId})

Next ==
    \/ Tick
    \/ \E a \in RfqActors, c \in Categories, d \in Deadlines, ids \in SupplierIdSets :
           create_rfq(a, c, d, ids)
    \/ \E a \in RfqActors, r \in RfqIds, ids \in SupplierIdSets : approve_draft_rfq(a, r, ids)
    \/ \E a \in RfqActors, r \in RfqIds, d \in Deadlines \cup {NoTime},
          st \in RFQStatus \cup {"keep"} : update_rfq(a, r, d, st)
    \/ \E s \in SupplierIds, r \in RfqIds, am \in Amounts : submit_quotation(s, r, am)
    \/ \E a \in QuotationActors, r \in RfqIds, q \in QuotationIds, j \in Justifications :
           request_finance_approval(a, r, q, j)
    \/ \E a \in QuotationActors, r \in RfqIds, q \in QuotationIds,
          j \in Justifications \cup {NoJustification} : approve_quotation(a, r, q, j)
    \/ \E a \in QuotationActors, r \in RfqIds, q \in QuotationIds : reject_quotation(a, r, q)
    \/ \E a \in RfqActors, r \in RfqIds : read_rfq(a, r)
    \/ \E a \in RfqActors : list_rfqs(a)
    \/ \E a \in QuotationActors : list_rfqs_with_pending_finance_approvals(a)
    \/ \E a \in QuotationActors : list_finance_approved_rfqs(a)
    \/ \E a \in RequestActors, c \in Categories, d \in Departments \cup {2} :
           create_request(a, c, d)
    \/ \E a \in RequestActors, i \in RequestIds : hod_approve_request(a, i)
    \/ \E a \in RequestActors, i \in RequestIds : hod_reject_request(a, i)
    \/ \E a \in RequestActors, i \in RequestIds, b \in BudgetInputs : approve_request(a, i, b)
    \/ \E a \in RequestActors, i \in RequestIds : deny_request(a, i)
    \/ \E a \in RequestActors \cup {"Finance"}, i \in RequestIds : finance_approve_request(a, i)
    \/ \E a \in RequestActors \cup {"Finance"}, i \in RequestIds : finance_reject_request(a, i)
    \/ \E a \in RequestActors, i \in RequestIds, ids \in SupplierIdSets, d \in Deadlines :
           invite_suppliers(a, i, ids, d)

Spec == Init /\ [][Next]_vars

\* ------------------------------------------------------ sub-systems
\* The full system is too large to enumerate, so each family of properties
\* is checked on the handlers that write or guard what it reads.  Every
\* sequential sub-system starts from the empty database and runs whole
\* handlers; its behaviours are behaviours of Spec.

\* The quotation award protocol on an RFQ created by procurement whose
\* deadline lies ahead throughout, so that the deadline sweep closes nothing;
\* update_rfq re-opens the RFQ so that bids can arrive at any point of the
\* protocol.
AwardActors == {"Procurement", "Finance", "SuperAdmin"}

AwardNext ==
    \/ \E c \in {"X"}, d \in {1} : create_rfq("Procurement", c, d, {})
    \/ \E r \in RfqIds : update_rfq("Procurement", r, NoTime, "open")
    \/ \E s \in SupplierIds, r \in RfqIds, am \in Amounts : submit_quotation(s, r, am)
    \/ \E a \in {"Procurement", "Finance"}, r \in RfqIds, q \in QuotationIds,
          j \in Justifications : request_finance_approval(a, r, q, j)
    \/ \E a \in AwardActors, r \in RfqIds, q \in QuotationIds,
          j \in Justifications \cup {NoJustification} : approve_quotation(a, r, q, j)
    \/ \E a \in AwardActors, r \in RfqIds, q \in QuotationIds : reject_quotation(a, r, q)

AwardSpec == Init /\ [][AwardNext]_vars

\* Sourcing from a purchase request: the request reviews, invite_suppliers
\* and the award protocol on the request's RFQ.
SourcingActors == {"Procurement", "Finance"}

SourcingNext ==
    \/ \E d \in Departments \cup {2} : create_request("Requester", "X", d)
    \/ \E a \in {"HeadOfDepartment", "OtherHead"}, i \in RequestIds :
           hod_approve_request(a, i)
    \/ \E a \in {"HeadOfDepartment", "OtherHead"}, i \in RequestIds :
           hod_reject_request(a, i)
    \/ \E i \in RequestIds, b \in BudgetInputs : approve_request("Procurement", i, b)
    \/ \E i \in RequestIds : deny_request("Procurement", i)
    \/ \E i \in RequestIds : finance_approve_request("Finance", i)
    \/ \E i \in RequestIds : finance_reject_request("Finance", i)
    \/ \E i \in RequestIds, ids \in SUBSET SupplierIds :
           invite_suppliers("Procurement", i, ids, 1)
    \/ \E r \in RfqIds : update_rfq("Procurement", r, NoTime, "open")
    \/ \E s \in SupplierIds, r \in RfqIds, am \in Amounts : submit_quotation(s, r, am)
    \/ \E a \in SourcingActors, r \in RfqIds, q \in QuotationIds, j \in Justifications :
           request_finance_approval(a, r, q, j)
    \/ \E a \in SourcingActors, r \in RfqIds, q \in QuotationIds,
          j \in Justifications \cup {NoJustification} : approve_quotation(a, r, q, j)
    \/ \E a \in SourcingActors, r \in RfqIds, q \in QuotationIds :
           reject_quotation(a, r, q)

SourcingSpec == Init /\ [][SourcingNext]_vars

\* Blind bidding: the clock, bids, escalation and the reads that embed
\* quotations.
ReadNext ==
    \/ Tick
    \/ \E d \in Deadlines : create_rfq("Procurement", "X", d, {})
    \/ \E s \in SupplierIds, r \in RfqIds, am \in Amounts : submit_quotation(s, r, am)
    \/ \E r \in RfqIds, q \in QuotationIds, j \in Justifications :
           request_finance_approval("Procurement", r, q, j)
    \/ \E r \in RfqIds, q \in QuotationIds :
           approve_quotation("Finance", r, q, NoJustification)
    \/ \E a \in {"Procurement", "SuperAdmin"}, r \in RfqIds : read_rfq(a, r)
    \/ \E a \in {"Finance", "SuperAdmin"} : list_rfqs_with_pending_finance_approvals(a)
    \/ \E a \in {"Finance", "SuperAdmin"} : list_finance_approved_rfqs(a)

ReadSpec == Init /\ [][ReadNext]_vars

\* Two sessions each serving one approve request, on an RFQ whose quotations
\* are submitted and possibly rejected beforehand.
ConcNext ==
    \/ create_rfq("Procurement", "X", 1, {})
    \/ \E s \in SupplierIds, r \in RfqIds, a \in Amounts : submit_quotation(s, r, a)
    \/ \E r \in RfqIds, q \in QuotationIds : reject_quotation("Procurement", r, q)
    \/ \E p \in Sessions, u \in {"Procurement", "Finance"}, r \in RfqIds,
          q \in QuotationIds, j \in {NoJustification} \cup Justifications :
           approve_check(p, u, r, q, j)
    \/ \E p \in Sessions : approve_commit(p)

ConcSpec == Init /\ [][ConcNext]_vars

\* ---------------------------------------------------------------------
\* Properties of the quotation award protocol
\* ---------------------------------------------------------------------

\* The review of purchase requests alone: creation, the two decisions of the
\* head of department tried by the assigned head, by another head, by a
\* SuperAdmin and by a role the endpoint refuses, and the decisions of
\* procurement and finance.
ReviewActors == {"HeadOfDepartment", "OtherHead", "SuperAdmin", "Procurement"}

ReviewNext ==
    \/ \E d \in Departments \cup {2} : create_request("Requester", "X", d)
    \/ \E a \in ReviewActors, i \in RequestIds : hod_approve_request(a, i)
    \/ \E a \in ReviewActors, i \in RequestIds : hod_reject_request(a, i)
    \/ \E i \in RequestIds, b \in BudgetInputs : approve_request("Procurement", i, b)
    \/ \E i \in RequestIds : deny_request("Procurement", i)
    \/ \E i \in RequestIds : finance_approve_request("Finance", i)
    \/ \E i \in RequestIds : finance_reject_request("Finance", i)

ReviewSpec == Init /\ [][ReviewNext]_vars

\* Invitations alone: a request brought to rfq_issued and invited in one or
\* more rounds with known, unknown, new and already invited suppliers and
\* deadlines ahead or not; RFQs created open or as drafts with a supplier
\* list or by category; draft approval; the status update back to draft or
\* to closed; the clock.
InviteNext ==
    \/ Tick
    \/ create_request("Requester", "X", 1)
    \/ \E i \in RequestIds : hod_approve_request("HeadOfDepartment", i)
    \/ \E i \in RequestIds : approve_request("Procurement", i, 10)
    \/ \E a \in {"Procurement", "Finance"}, i \in RequestIds, ids \in SupplierIdSets,
          d \in Deadlines : invite_suppliers(a, i, ids, d)
    \/ \E a \in {"Procurement", "ProcurementOfficer"}, c \in Categories,
          ids \in SupplierIdSets : create_rfq(a, c, MaxTime + 1, ids)
    \/ \E r \in RfqIds, ids \in SupplierIdSets : approve_draft_rfq("Procurement", r, ids)
    \/ \E r \in RfqIds, st \in {"draft", "closed"} : update_rfq("Procurement", r, NoTime, st)

InviteSpec == Init /\ [][InviteNext]_vars

\* The fairness selector alone: RFQs created with a supplier list or by
\* category, set back to draft and approved again, so that the counters of
\* the suppliers differ in count and in time; and the selector called for
\* each category with each limit.
Limits == 0..NumSuppliers

SelectNext ==
    \/ Tick
    \/ \E c \in Categories, ids \in SUBSET SupplierIds :
           create_rfq("Procurement", c, MaxTime + 1, ids)
    \/ \E r \in RfqIds : update_rfq("Procurement", r, NoTime, "draft")
    \/ \E r \in RfqIds, ids \in SUBSET SupplierIds : approve_draft_rfq("Procurement", r, ids)
    \/ \E c \in Categories, n \in Limits : call_select_suppliers_for_rfq(c, n)

SelectSpec == Init /\ [][SelectNext]_vars

\* Delivery: an RFQ created with a far deadline and quoted, the award by
\* Procurement, the rejection of a quotation, and the delivery marked by
\* Procurement or Finance for every delivery instant, with and without a
\* delivery note.
DeliveryNext ==
    \/ Tick
    \/ create_rfq("Procurement", "X", MaxTime + 1, {})
    \/ \E s \in SupplierIds, r \in RfqIds, am \in Amounts : submit_quotation(s, r, am)
    \/ \E r \in RfqIds, q \in QuotationIds :
           approve_quotation("Procurement", r, q, NoJustification)
    \/ \E r \in RfqIds, q \in QuotationIds : reject_quotation("Procurement", r, q)
    \/ \E a \in {"Procurement", "Finance"}, r \in RfqIds, q \in QuotationIds, t \in Times,
          n \in BOOLEAN : mark_quotation_delivered(a, r, q, t, n)

DeliverySpec == Init /\ [][DeliveryNext]_vars

\* ---- invite_suppliers as two sessions run it side by side ----
\* invite_suppliers is a plain def, so requests are served by threads of the
\* pool side by side.  A request is split after the supplier rows are loaded
\* (lines 1072-1083), which puts their invitations_sent into the session, and
\* before the first write (line 1114).

\* invite_suppliers, lines 1041-1083, in session p; seen holds the
\* invitations_sent of the supplier rows the session has loaded.
invite_read(p, actor, request_id, supplier_ids, deadline) ==
    LET request == [IdleTxn EXCEPT !.op = "invite_suppliers", !.actor = actor,
                                   !.request_id = request_id,
                                   !.supplier_ids = supplier_ids, !.deadline = deadline,
                                   !.seen = [s \in SupplierIds |->
                                                suppliers[s].invitations_sent]]
        refuse(code, detail) ==
            /\ resp' = Response("invite_suppliers", actor, code, detail, NoId, NoId,
                                FALSE, {})
            /\ txn' = [txn EXCEPT ![p] = [request EXCEPT !.state = "failed"]]
            /\ UNCHANGED <<now, requests, rfqs, invitations, quotations, suppliers,
                           everApproved>>
    IN
    /\ txn[p].state = "idle"
    /\ IF Role(actor) \notin {"Procurement", "SuperAdmin"}
       THEN refuse("403", "role")
       ELSE IF request_id \notin DOMAIN requests
       THEN refuse("404", "request")
       ELSE IF requests[request_id].status \notin {"finance_approved", "rfq_issued"}
       THEN refuse("400", "status")
       ELSE IF supplier_ids = {}
       THEN refuse("400", "no_suppliers")
       ELSE IF deadline <= now
       THEN refuse("400", "deadline")
       ELSE IF supplier_ids \ SupplierIds # {}
       THEN refuse("404", "supplier")
       ELSE /\ txn' = [txn EXCEPT ![p] = [request EXCEPT !.state = "checked"]]
            /\ UNCHANGED <<now, requests, rfqs, invitations, quotations, suppliers, resp,
                           everApproved>>

\* invite_suppliers, lines 1085-1148, in session p: the RFQ, the invitation
\* rows, the counters written as the loaded value plus one (create_invitations,
\* lines 110-112) and the commit.
invite_commit(p) ==
    LET request == txn[p]
        request_obj == requests[request.request_id]
        reuse == request_obj.rfq_id # NoId /\ request_obj.rfq_id \in DOMAIN rfqs
        rfq_id == IF reuse THEN request_obj.rfq_id ELSE Len(rfqs) + 1
        existing_invited_ids == {s \in SupplierIds : invitations[<<rfq_id, s>>] # <<>>}
        new_suppliers == request.supplier_ids \ existing_invited_ids
        refuse(code, detail) ==
            /\ resp' = Response("invite_suppliers", request.actor, code, detail, rfq_id,
                                NoId, FALSE, {})
            /\ txn' = [txn EXCEPT ![p] = [request EXCEPT !.state = "failed"]]
            /\ UNCHANGED <<now, requests, rfqs, invitations, quotations, suppliers,
                           everApproved>>
    IN
    /\ request.state = "checked"
    /\ request.op = "invite_suppliers"
    /\ reuse \/ Len(rfqs) < MaxConcurrentRfqs
    /\ IF new_suppliers = {}
       THEN refuse("400", "all_invited")
       ELSE /\ rfqs' = IF reuse
                       THEN [rfqs EXCEPT ![rfq_id].deadline = request.deadline,
                                         ![rfq_id].status = "open"]
                       ELSE Append(rfqs, NewRfq("open", request.deadline,
                                                request_obj.category))
            /\ invitations' = invitations_after_create(invitations, rfq_id, new_suppliers)
            /\ suppliers' = [s \in DOMAIN suppliers |->
                                IF s \in new_suppliers
                                THEN [suppliers[s] EXCEPT
                                         !.invitations_sent = request.seen[s] + 1,
                                         !.last_invited_at = now]
                                ELSE suppliers[s]]
            /\ requests' = [requests EXCEPT ![request.request_id].rfq_id = rfq_id,
                                            ![request.request_id].status = "rfq_issued"]
            /\ resp' = Response("invite_suppliers", request.actor, "200", "rfq_issued",
                                rfq_id, NoId, FALSE, {})
            /\ txn' = [q \in Sessions |->
                          IF q = p
                          THEN [request EXCEPT !.state = "committed", !.rfq_id = rfq_id,
                                               !.supplier_ids = new_suppliers]
                          ELSE IF txn[q].state = "checked"
                          THEN [txn[q] EXCEPT !.overlapped = TRUE]
                          ELSE txn[q]]
            /\ UNCHANGED <<now, quotations, everApproved>>

\* Two requests that create_request, hod_approve_request and approve_request
\* have brought to rfq_issued, before any supplier has been invited.
InviteRaceInit ==
    /\ now = 0
    /\ requests = [i \in 1..MaxConcurrentRfqs |->
                      [NewRequest("X", 1) EXCEPT !.status = "rfq_issued",
                                                 !.proposed_budget_amount = quantize(10),
                                                 !.hod_reviewer_id = "HeadOfDepartment"]]
    /\ rfqs = <<>>
    /\ invitations = [p \in (1..MaxConcurrentRfqs) \X SupplierIds |-> <<>>]
    /\ quotations = <<>>
    /\ suppliers = [s \in SupplierIds |->
                       [invitations_sent |-> 0, last_invited_at |-> NoTime,
                        total_awarded_value |-> 0]]
    /\ resp = NoResponse
    /\ everApproved = {}
    /\ txn = [p \in Sessions |-> IdleTxn]

\* Two sessions each serving one invitation round, for either request, with
\* any known suppliers and one unknown one; the clock.
InviteRaceNext ==
    \/ Tick
    \/ \E p \in Sessions, a \in {"Procurement", "Finance"}, i \in 1..MaxConcurrentRfqs,
          ids \in SupplierIdSets, d \in {1, MaxTime + 1} : invite_read(p, a, i, ids, d)
    \/ \E p \in Sessions : invite_commit(p)

InviteRaceSpec == InviteRaceInit /\ [][InviteRaceNext]_vars

\* Two sessions each serving one submit request of a supplier, on an RFQ
\* created open or as a draft, by category or with a deadline that expires;
\* the clock.
SubmitRaceNext ==
    \/ Tick
    \/ \E a \in {"Procurement", "ProcurementOfficer"}, c \in Categories, d \in Deadlines :
           create_rfq(a, c, d, {})
    \/ \E p \in Sessions, s \in SupplierIds, r \in RfqIds, am \in Amounts :
           submit_check(p, s, r, am)
    \/ \E p \in Sessions : submit_commit(p)

SubmitRaceSpec == Init /\ [][SubmitRaceNext]_vars

\* Invitation rounds alone: a request brought to rfq_issued or left in an
\* earlier status, rounds with known, unknown, new and already invited
\* suppliers and deadlines ahead or not, by a permitted and a forbidden role,
\* the RFQ closed in between; the clock.
RoundsNext ==
    \/ Tick
    \/ create_request("Requester", "X", 1)
    \/ \E i \in RequestIds : hod_approve_request("HeadOfDepartment", i)
    \/ \E i \in RequestIds : approve_request("Procurement", i, 10)
    \/ \E a \in {"Procurement", "Finance"}, i \in RequestIds, ids \in SupplierIdSets,
          d \in Deadlines : invite_suppliers(a, i, ids, d)
    \/ \E r \in RfqIds : update_rfq("Procurement", r, NoTime, "closed")

RoundsSpec == Init /\ [][RoundsNext]_vars

\* The response lock of RFQs issued from requests, whose deadlines
\* invite_suppliers writes in UTC: invitation rounds, bids, decisions, status
\* updates, draft approval, the single-RFQ read and the clock.
LockNext ==
    \/ Tick
    \/ create_request("Requester", "X", 1)
    \/ \E i \in RequestIds : hod_approve_request("HeadOfDepartment", i)
    \/ \E i \in RequestIds : approve_request("Procurement", i, 10)
    \/ \E i \in RequestIds, d \in Deadlines :
           invite_suppliers("Procurement", i, SupplierIds, d)
    \/ \E s \in SupplierIds, r \in RfqIds, am \in Amounts : submit_quotation(s, r, am)
    \/ \E r \in RfqIds, q \in QuotationIds :
           approve_quotation("Procurement", r, q, NoJustification)
    \/ \E r \in RfqIds, q \in QuotationIds : reject_quotation("Procurement", r, q)
    \/ \E r \in RfqIds, st \in {"closed", "open"} :
           update_rfq("Procurement", r, NoTime, st)
    \/ \E r \in RfqIds : approve_draft_rfq("Procurement", r, {})
    \/ \E r \in RfqIds : read_rfq("Procurement", r)

LockSpec == Init /\ [][LockNext]_vars

\* The RFQ lifecycle under a running clock: RFQs created open by procurement
\* or as drafts by a procurement officer, in a category all suppliers serve
\* or in one that only supplier 1 serves; the stand-alone sweep, draft
\* approval, updates of the deadline or of the status (to any status but
\* draft), bids, award, rejection and the single-RFQ read.
LifecycleNext ==
    \/ Tick
    \/ main
    \/ \E a \in {"Procurement", "ProcurementOfficer"}, c \in Categories, d \in Deadlines :
           create_rfq(a, c, d, {})
    \/ \E a \in {"Procurement", "ProcurementOfficer"}, r \in RfqIds :
           approve_draft_rfq(a, r, {})
    \/ \E r \in RfqIds, d \in Deadlines : update_rfq("Procurement", r, d, "keep")
    \/ \E r \in RfqIds, st \in {"open", "closed", "awarded"} : update_rfq("Procurement", r, NoTime, st)
    \/ \E s \in SupplierIds, r \in RfqIds, am \in Amounts : submit_quotation(s, r, am)
    \/ \E r \in RfqIds, q \in QuotationIds :
           approve_quotation("Procurement", r, q, NoJustification)
    \/ \E r \in RfqIds, q \in QuotationIds : reject_quotation("Procurement", r, q)
    \/ \E r \in RfqIds : read_rfq("Procurement", r)

LifecycleSpec == Init /\ [][LifecycleNext]_vars

\* C1: in every reachable state, whatever sequence of submit, budget-override
\* request, approve, reject, RFQ update and supplier invitation led to it, each
\* RFQ has at most one quotation whose status is approved.
C1_AtMostOneApproved ==
    \A r \in DOMAIN rfqs :
        Cardinality({i \in QuotationsOf(r) : quotations[i].status = "approved"}) <= 1

\* An RFQ two of whose quotations have each been approved at some time, one of
\* them being the approved one now.
C1_Witness ==
    \E r \in DOMAIN rfqs : \E i, j \in QuotationsOf(r) :
        /\ i # j
        /\ quotations[i].status = "approved"
        /\ j \in everApproved

\* C2: over the lifetime of an RFQ at most one quotation is ever approved: a
\* quotation that is approved now is the only quotation of its RFQ that has
\* ever been approved, also after a reject of the earlier one.
C2_OnlyOneEverApproved ==
    \A i \in DOMAIN quotations, j \in DOMAIN quotations :
        (/\ i \in everApproved
         /\ quotations[j].status = "approved"
         /\ quotations[i].rfq_id = quotations[j].rfq_id) => i = j

\* C3: of two approve requests on different quotations of one RFQ, each of
\* which passed its existing-winner check before the other committed, at most
\* one commits an award.
C3_ConcurrentApproveOneCommits ==
    ~ \E p \in Sessions, q \in Sessions :
        /\ p # q
        /\ txn[p].state = "committed"
        /\ txn[q].state = "committed"
        /\ txn[p].rfq_id = txn[q].rfq_id
        /\ txn[p].quotation_id # txn[q].quotation_id
        /\ txn[q].overlapped

\* C4: a step in which an approve awards quotation Q of RFQ R ends with every
\* other quotation of R rejected with no approval timestamp and no approver,
\* with the invitations of Q's supplier awarded and every other invitation of
\* R not_selected, and with the quotations that were already rejected unchanged.
C4_AwardSettlesSiblings ==
    [][(resp'.op = "approve_quotation" /\ resp'.detail = "awarded") =>
          LET Q == resp'.quotation_id
              R == resp'.rfq_id
          IN /\ \A i \in DOMAIN quotations' :
                    (i # Q /\ quotations'[i].rfq_id = R) =>
                        /\ quotations'[i].status = "rejected"
                        /\ quotations'[i].approved_at = NoTime
                        /\ quotations'[i].approved_by_id = NoUser
             /\ \A i \in DOMAIN quotations :
                    (i # Q /\ quotations[i].rfq_id = R /\ quotations[i].status = "rejected")
                        => quotations'[i] = quotations[i]
             /\ \A s \in SupplierIds : \A k \in DOMAIN invitations'[<<R, s>>] :
                    invitations'[<<R, s>>][k] =
                        IF s = quotations'[Q].supplier_id THEN "awarded" ELSE "not_selected"
      ]_vars

\* C5: a step in which an approve awards a quotation leaves the quotation
\* approved, its RFQ awarded and every purchase request the RFQ originates from
\* completed, all in that one step; and a purchase request becomes completed in
\* no other kind of step.
C5_AwardCompletesRequest ==
    [][/\ (resp'.op = "approve_quotation" /\ resp'.detail = "awarded") =>
             /\ quotations'[resp'.quotation_id].status = "approved"
             /\ rfqs'[resp'.rfq_id].status = "awarded"
             /\ \A i \in DOMAIN requests :
                    requests[i].rfq_id = resp'.rfq_id => requests'[i].status = "completed"
       /\ \A i \in DOMAIN requests' :
              (/\ requests'[i].status = "completed"
               /\ (i \notin DOMAIN requests \/ requests[i].status # "completed"))
              => /\ resp'.op = "approve_quotation"
                 /\ resp'.detail = "awarded"
                 /\ i \in DOMAIN requests
                 /\ requests[i].rfq_id = resp'.rfq_id
      ]_vars

\* An approve has just awarded a quotation of an RFQ that originates from a
\* purchase request, and that request is completed.
C5_Witness ==
    /\ resp.op = "approve_quotation"
    /\ resp.detail = "awarded"
    /\ \E i \in DOMAIN requests :
           requests[i].rfq_id = resp.rfq_id /\ requests[i].status = "completed"

\* C6: a quotation's status changes only along submitted -> pending_finance_approval,
\* submitted -> approved, submitted -> rejected, pending_finance_approval -> approved
\* and pending_finance_approval -> rejected; approved and rejected are terminal.
C6_QuotationStatusEdges ==
    [][\A i \in DOMAIN quotations :
           quotations'[i].status # quotations[i].status =>
               <<quotations[i].status, quotations'[i].status>> \in
                   {<<"submitted", "pending_finance_approval">>,
                    <<"submitted", "approved">>,
                    <<"submitted", "rejected">>,
                    <<"pending_finance_approval", "approved">>,
                    <<"pending_finance_approval", "rejected">>}
      ]_vars

\* C7: an approve by a plain Procurement actor awards only a quotation that was
\* submitted, and only without an override justification; with an override
\* justification on a submitted quotation it is refused as forbidden and
\* leaves the stored state as it was.
C7_ProcurementApprove ==
    [][(/\ resp'.op = "approve_quotation"
        /\ resp'.actor = "Procurement"
        /\ resp'.quotation_id \in DOMAIN quotations
        /\ quotations[resp'.quotation_id].rfq_id = resp'.rfq_id) =>
          /\ resp'.detail = "awarded" =>
                 /\ quotations[resp'.quotation_id].status = "submitted"
                 /\ ~resp'.justified
          /\ (resp'.justified /\ quotations[resp'.quotation_id].status = "submitted") =>
                 /\ resp'.code = "403"
                 /\ UNCHANGED dbvars
      ]_vars

\* C8 as stated: a quotation in pending_finance_approval becomes approved or
\* rejected only in a step of a Finance or SuperAdmin actor; an approve or a
\* reject of it by a plain Procurement actor is refused as forbidden and leaves
\* it pending_finance_approval.
C8_PendingDecidedByElevatedOnly ==
    [][\A i \in DOMAIN quotations :
           quotations[i].status = "pending_finance_approval" =>
               /\ quotations'[i].status \in {"approved", "rejected"} =>
                      resp'.actor \in {"Finance", "SuperAdmin"}
               /\ (/\ resp'.op \in {"approve_quotation", "reject_quotation"}
                   /\ resp'.actor = "Procurement"
                   /\ resp'.quotation_id = i
                   /\ resp'.rfq_id = quotations[i].rfq_id) =>
                      /\ resp'.code = "403"
                      /\ quotations'[i].status = "pending_finance_approval"
      ]_vars

\* C8, amended: an approve or a reject applied to a quotation in
\* pending_finance_approval changes its status only when the actor is Finance
\* or SuperAdmin, and by a plain Procurement actor it is refused as forbidden
\* and leaves the quotation pending_finance_approval; the only other way the
\* quotation leaves pending_finance_approval is by being rejected as a sibling
\* when an approve, by any permitted actor, awards another quotation of its RFQ.
C8_PendingDecidedByElevatedOrCascade ==
    [][\A i \in DOMAIN quotations :
           quotations[i].status = "pending_finance_approval" =>
               /\ quotations'[i].status # "pending_finance_approval" =>
                      \/ /\ resp'.op \in {"approve_quotation", "reject_quotation"}
                         /\ resp'.quotation_id = i
                         /\ resp'.actor \in {"Finance", "SuperAdmin"}
                         /\ quotations'[i].status \in {"approved", "rejected"}
                      \/ /\ resp'.op = "approve_quotation"
                         /\ resp'.detail = "awarded"
                         /\ resp'.quotation_id # i
                         /\ resp'.rfq_id = quotations[i].rfq_id
                         /\ quotations'[i].status = "rejected"
               /\ (/\ resp'.op \in {"approve_quotation", "reject_quotation"}
                   /\ resp'.actor = "Procurement"
                   /\ resp'.quotation_id = i
                   /\ resp'.rfq_id = quotations[i].rfq_id) =>
                      /\ resp'.code = "403"
                      /\ quotations'[i].status = "pending_finance_approval"
      ]_vars

\* A plain Procurement actor's approve or reject of a quotation in
\* pending_finance_approval has just been refused.
C8_Witness ==
    /\ resp.op \in {"approve_quotation", "reject_quotation"}
    /\ resp.actor = "Procurement"
    /\ resp.code = "403"
    /\ resp.quotation_id \in DOMAIN quotations
    /\ quotations[resp.quotation_id].rfq_id = resp.rfq_id
    /\ quotations[resp.quotation_id].status = "pending_finance_approval"

\* C9: a budget-override request succeeds only on a submitted quotation, which
\* it moves to pending_finance_approval recording the requesting user, the time
\* and the justification; on a quotation in any other status it fails and
\* leaves the quotation unchanged.
C9_OverrideOnlyFromSubmitted ==
    [][(/\ resp'.op = "request_finance_approval"
        /\ resp'.quotation_id \in DOMAIN quotations
        /\ quotations[resp'.quotation_id].rfq_id = resp'.rfq_id) =>
          LET before == quotations[resp'.quotation_id]
              after == quotations'[resp'.quotation_id]
          IN /\ resp'.code = "200" =>
                    /\ before.status = "submitted"
                    /\ after.status = "pending_finance_approval"
                    /\ after.finance_approval_requested_by_id = resp'.actor
                    /\ after.finance_approval_requested_at = now
                    /\ after.budget_override_justification \in Justifications
             /\ before.status # "submitted" =>
                    /\ resp'.code # "200"
                    /\ after = before
      ]_vars

\* C10: while an RFQ is response_locked and its deadline lies ahead, the
\* single-RFQ read and each listing that embeds quotations return none of that
\* RFQ's quotations.
C10_LockedRfqHidesQuotations ==
    \A r \in DOMAIN rfqs :
        (/\ rfqs[r].response_locked
         /\ rfqs[r].deadline > now
         /\ resp.code = "200"
         /\ \/ resp.op = "read_rfq" /\ resp.rfq_id = r
            \/ resp.op \in {"list_pending_finance_approvals", "list_finance_approved"})
        => resp.quotations \cap QuotationsOf(r) = {}

\* C11: the step that inserts a quotation is a successful submit that also
\* marks the invitation of the submitting supplier responded and leaves the
\* open, unexpired RFQ response_locked; and in no state does a quotation exist
\* for an (RFQ, supplier) pair whose invitation is still invited.
C11_SubmitIsAtomic ==
    /\ [](\A i \in DOMAIN quotations :
             LET rows == invitations[<<quotations[i].rfq_id, quotations[i].supplier_id>>]
             IN rows # <<>> /\ rows[1] # "invited")
    /\ [][Len(quotations') > Len(quotations) =>
             LET new == Len(quotations) + 1
                 R == resp'.rfq_id
             IN /\ DOMAIN quotations' = 1..new
                /\ resp'.op = "submit_quotation"
                /\ resp'.code = "201"
                /\ resp'.quotation_id = new
                /\ quotations'[new].rfq_id = R
                /\ quotations'[new].status = "submitted"
                /\ invitations'[<<R, quotations'[new].supplier_id>>][1] = "responded"
                /\ rfqs'[R].status = "open"
                /\ rfqs'[R].deadline > now
                /\ rfqs'[R].response_locked
         ]_vars

\* A second quotation has just been submitted to an RFQ that the first one
\* had locked.
C11_Witness ==
    /\ resp.op = "submit_quotation"
    /\ resp.code = "201"
    /\ resp.quotation_id = 2
    /\ quotations[1].rfq_id = quotations[2].rfq_id
    /\ rfqs[resp.rfq_id].response_locked

\* C12: a submit by supplier s to RFQ r succeeds only when r is open, s holds
\* an invitation to r and s has no quotation for r; on a non-open RFQ it is
\* refused as an invalid state (400), for a supplier without invitation as
\* forbidden (403), for a second quotation as a conflict (400), and a refused
\* submit changes no quotation, no invitation and no RFQ.
C12_SubmitGuards ==
    [][\A s \in SupplierIds, r \in RfqIds, am \in Amounts :
           submit_quotation(s, r, am) =>
               LET open == r \in DOMAIN rfqs /\ rfqs[r].status = "open"
                   live == open /\ rfqs[r].deadline > now
                   invited == invitations[<<r, s>>] # <<>>
                   quoted == \E i \in DOMAIN quotations :
                                 quotations[i].rfq_id = r /\ quotations[i].supplier_id = s
               IN /\ resp'.code = "201" => open /\ invited /\ ~quoted
                  /\ resp'.code # "201" =>
                         /\ quotations' = quotations
                         /\ invitations' = invitations
                         /\ rfqs' = rfqs
                  /\ (r \in DOMAIN rfqs /\ ~open) =>
                         resp'.code = "400" /\ resp'.detail = "not_open"
                  /\ (live /\ ~invited) =>
                         resp'.code = "403" /\ resp'.detail = "not_invited"
                  /\ (live /\ invited /\ quoted) =>
                         resp'.code = "400" /\ resp'.detail = "duplicate"
      ]_vars

\* A submit has just been refused on an RFQ that is open in storage although
\* its deadline has passed, so that the refused handler had swept it.
C12_Witness ==
    /\ resp.op = "submit_quotation"
    /\ resp.code = "400"
    /\ resp.detail = "not_open"
    /\ rfqs[resp.rfq_id].status = "open"
    /\ rfqs[resp.rfq_id].deadline <= now
    /\ rfqs[resp.rfq_id].response_locked

\* C13: in every state no two quotations share an RFQ and a supplier, and the
\* supplier of every quotation has an invitation row for the quotation's RFQ.
C13_OneQuotationPerInvitedSupplier ==
    /\ \A i, j \in DOMAIN quotations :
           (quotations[i].rfq_id = quotations[j].rfq_id
            /\ quotations[i].supplier_id = quotations[j].supplier_id) => i = j
    /\ \A i \in DOMAIN quotations :
           invitations[<<quotations[i].rfq_id, quotations[i].supplier_id>>] # <<>>

\* A supplier's second submit to the same RFQ has just been refused, after
\* every supplier had quoted.
C13_Witness ==
    /\ resp.op = "submit_quotation"
    /\ resp.code = "400"
    /\ resp.detail = "duplicate"
    /\ Len(quotations) = NumSuppliers
    /\ \A i \in DOMAIN quotations : quotations[i].rfq_id = resp.rfq_id

C15_SweepIdempotent ==
    [][(main /\ resp.op = "close_expired_rfqs" /\ resp.at = now) =>
           /\ dbvars' = dbvars
           /\ resp'.closed_count = 0
      ]_vars

\* The sweep has just run a second time, right after a run that closed an
\* RFQ.
C15_Witness ==
    /\ resp.op = "close_expired_rfqs"
    /\ resp.previous = 1
    /\ resp.closed_count = 0
    /\ resp.at = now

\* C16: every RFQ operation sweeps before it evaluates its guards, so that no
\* operation that completes leaves behind, or has acted on, an RFQ that is
\* open with a deadline at or before now.
C16_EveryOperationSweepsFirst ==
    [][(resp' # resp /\ resp'.code \in {"200", "201"}) =>
           \A r \in DOMAIN rfqs' :
               ~(rfqs'[r].status = "open" /\ rfqs'[r].deadline <= now')
      ]_vars

\* C17: the status of an RFQ changes only from draft to open, from open to
\* closed and from open to awarded.
C17_RfqStatusEdges ==
    [][\A r \in DOMAIN rfqs :
           rfqs'[r].status # rfqs[r].status =>
               <<rfqs[r].status, rfqs'[r].status>> \in
                   {<<"draft", "open">>, <<"open", "closed">>, <<"open", "awarded">>}
      ]_vars

C19_RequestStatusEdges ==
    /\ [](\A i \in DOMAIN requests :
             requests[i].status \notin
                 {"pending_finance_approval", "rejected_by_finance", "finance_approved"})
    /\ [][/\ Len(requests') > Len(requests) =>
                 requests'[Len(requests')].status = "pending_hod"
          /\ \A i \in DOMAIN requests :
                 requests'[i].status # requests[i].status =>
                     <<requests[i].status, requests'[i].status>> \in
                         {<<"pending_hod", "rejected_by_hod">>,
                          <<"pending_hod", "pending_procurement">>,
                          <<"pending_procurement", "rejected_by_procurement">>,
                          <<"pending_procurement", "rfq_issued">>,
                          <<"rfq_issued", "completed">>}
         ]_vars

\* A further invitation round has just been refused for a request that is
\* completed.
C19_Witness ==
    /\ resp.op = "invite_suppliers"
    /\ resp.code = "400"
    /\ resp.detail = "status"
    /\ \E i \in DOMAIN requests : requests[i].status = "completed"

\* C20: a request goes from pending_procurement to rfq_issued only in a
\* procurement approval whose budget amount is greater than zero; every
\* request in rfq_issued or completed holds a positive proposed budget; and a
\* newly created request holds budget zero.
C20_IssuedRequestHasPositiveBudget ==
    /\ [](\A i \in DOMAIN requests :
             requests[i].status \in {"rfq_issued", "completed"} =>
                 requests[i].proposed_budget_amount > 0)
    /\ [][/\ Len(requests') > Len(requests) =>
                 requests'[Len(requests')].proposed_budget_amount = 0
          /\ \A i \in DOMAIN requests :
                 (requests[i].status = "pending_procurement"
                  /\ requests'[i].status = "rfq_issued") =>
                     /\ resp'.op = "approve_request"
                     /\ \E a \in Users, b \in BudgetInputs :
                            b > 0 /\ approve_request(a, i, b)
         ]_vars

\* C21: the approval and the rejection by the head of department change a
\* request only when it is in pending_hod and the actor is the head of the
\* request's department or a SuperAdmin; on a request in another status they
\* are refused as an invalid state (400), for another actor as forbidden
\* (403), and a refused call leaves the request, its status and its reviewer
\* as they were.
C21_HodReviewGuards ==
    [][\A a \in Users, i \in RequestIds :
           (hod_approve_request(a, i) \/ hod_reject_request(a, i)) =>
               LET known == i \in DOMAIN requests
                   permitted == Role(a) \in {"HeadOfDepartment", "SuperAdmin"}
                   pending == known /\ requests[i].status = "pending_hod"
                   assigned == known /\ (Role(a) = "SuperAdmin" \/
                                   head_of_department_id(requests[i].department_id) = a)
               IN /\ requests' # requests => pending /\ permitted /\ assigned
                  /\ resp'.code = "200" =>
                         /\ requests'[i].hod_reviewer_id = a
                         /\ requests'[i].status \in {"pending_procurement", "rejected_by_hod"}
                  /\ (known /\ permitted /\ ~pending) => resp'.code = "400"
                  /\ (pending /\ ~(permitted /\ assigned)) => resp'.code = "403"
                  /\ ~permitted => resp'.code = "403"
                  /\ resp'.code # "200" => dbvars' = dbvars
      ]_vars

\* A head of another department has just been refused the rejection of a
\* request that is still awaiting its own head and has no reviewer.
C21_Witness ==
    /\ resp.op = "hod_reject_request"
    /\ resp.actor = "OtherHead"
    /\ resp.code = "403"
    /\ \E i \in DOMAIN requests :
           requests[i].status = "pending_hod" /\ requests[i].hod_reviewer_id = NoUser

\* C22: an invitation round is refused, and leaves the request, its RFQ,
\* every invitation and every supplier counter as they were, when the request
\* is neither finance_approved nor rfq_issued (400), when a named supplier is
\* unknown (404) and when every named supplier already holds an invitation to
\* the request's RFQ (400).
C22_InviteRefusals ==
    [][\A i \in RequestIds, ids \in SupplierIdSets, d \in Deadlines :
           (resp'.op = "invite_suppliers" /\ invite_suppliers(resp'.actor, i, ids, d)) =>
               LET a == resp'.actor
                   permitted == Role(a) \in {"Procurement", "SuperAdmin"}
                   known == permitted /\ i \in DOMAIN requests
                   budgeted == known /\ requests[i].status \in {"finance_approved", "rfq_issued"}
                   valid == budgeted /\ ids # {} /\ d > now
                   linked == valid /\ requests[i].rfq_id \in DOMAIN rfqs
               IN /\ (known /\ ~budgeted) =>
                         resp'.code = "400" /\ resp'.detail = "status"
                  /\ (valid /\ ids \ SupplierIds # {}) =>
                         resp'.code = "404" /\ resp'.detail = "supplier"
                  /\ (linked /\ \A s \in ids :
                                    s \in SupplierIds
                                    /\ invitations[<<requests[i].rfq_id, s>>] # <<>>) =>
                         resp'.code = "400" /\ resp'.detail = "all_invited"
                  /\ resp'.code # "200" => dbvars' = dbvars
      ]_vars

\* A second invitation round naming only an already invited supplier has
\* just been refused, with a new deadline, for a request whose RFQ has been
\* closed in the meantime.
C22_Witness ==
    /\ resp.op = "invite_suppliers"
    /\ resp.code = "400"
    /\ resp.detail = "all_invited"
    /\ rfqs[resp.rfq_id].status = "closed"
    /\ \E i \in DOMAIN requests : requests[i].rfq_id = resp.rfq_id

\* C23: in every state there is at most one invitation row for each RFQ and
\* supplier.
C23_OneInvitationPerPair ==
    \A p \in DOMAIN invitations : Len(invitations[p]) <= 1

\* C24: a step that creates invitations adds no row for a supplier that
\* already holds an invitation to the RFQ and leaves that supplier's
\* invitations_sent and last_invited_at as they were; for every supplier not
\* yet invited that it invites it adds one row, increments invitations_sent by
\* one and sets last_invited_at to now.
C24_CreateInvitationsSkipsInvited ==
    [][\A r \in RfqIds, s \in SupplierIds :
           LET before == invitations[<<r, s>>]
               after == invitations'[<<r, s>>]
           IN /\ before # <<>> =>
                     /\ Len(after) = Len(before)
                     /\ suppliers'[s].invitations_sent = suppliers[s].invitations_sent
                     /\ suppliers'[s].last_invited_at = suppliers[s].last_invited_at
              /\ (before = <<>> /\ after # <<>>) =>
                     /\ Len(after) = 1
                     /\ suppliers'[s].invitations_sent = suppliers[s].invitations_sent + 1
                     /\ suppliers'[s].last_invited_at = now
      ]_vars

\* C25: the selector returns only suppliers of the category, without
\* repetition, in ascending order of invitations_sent and then of
\* last_invited_at with suppliers never invited first; with a limit n it
\* returns the first n of that ordering, and all of them when there are fewer
\* than n.
C25_SelectorOrderAndLimit ==
    [][\A c \in Categories, n \in Limits :
           call_select_suppliers_for_rfq(c, n) =>
               LET out == resp'.selected
                   eligible == {s \in SupplierIds : c \in SupplierCategory(s)}
                   chosen == {out[k] : k \in DOMAIN out}
                   key(s) == <<suppliers[s].invitations_sent, suppliers[s].last_invited_at>>
                   above(a, b) == \/ key(a)[1] > key(b)[1]
                                  \/ key(a)[1] = key(b)[1] /\ key(a)[2] > key(b)[2]
                   size == IF n < Cardinality(eligible) THEN n ELSE Cardinality(eligible)
               IN /\ chosen \subseteq eligible
                  /\ Cardinality(chosen) = Len(out)
                  /\ \A j, k \in DOMAIN out : j < k => ~above(out[j], out[k])
                  /\ \A s \in eligible \ chosen : \A k \in DOMAIN out : ~above(out[k], s)
                  /\ Len(out) = size
      ]_vars

\* C26: a delivery is recorded only on a quotation that is approved and only
\* for a delivery instant later than the instant of its approval; on a
\* quotation that is not approved, and for a delivery instant before the
\* approval, the call is refused and the quotation is left as it was.
C26_DeliveryAfterApproval ==
    [][\A r \in RfqIds, q \in QuotationIds, t \in Times, n \in BOOLEAN :
           (/\ resp'.op = "mark_quotation_delivered"
            /\ QuotationExists(r, q)
            /\ mark_quotation_delivered(resp'.actor, r, q, t, n)) =>
               LET approved == quotations[q].status = "approved"
                   approval == read_as_utc(quotations[q].approved_at)
               IN /\ quotations' # quotations => approved /\ t > approval
                  /\ (~approved \/ t < approval) =>
                         resp'.code # "200" /\ quotations' = quotations
      ]_vars

C28_DistinctErrorKinds ==
    [][LET wrong_role == {"role"}
           wrong_state == {"not_open", "not_draft"}
           already_decided == {"duplicate", "already_awarded"}
           failed(r) == r.code \notin {"200", "201"}
       IN (/\ resp' # resp
           /\ failed(resp) /\ failed(resp')
           /\ \/ resp.detail \in wrong_state /\ resp'.detail \in already_decided
              \/ resp.detail \in wrong_role /\ resp'.detail \in already_decided
              \/ resp.detail \in wrong_role /\ resp'.detail \in wrong_state)
          => resp'.code # resp.code
      ]_vars

\* C30: for every RFQ at every instant the read-time check of read_rfq takes
\* the stored deadline for passed exactly when the deadline sweep would close
\* the RFQ if it were open, and no step clears the lock of an RFQ that the sweep
\* still leaves open.
C30_ReadAgreesWithSweep ==
    /\ [](\A r \in DOMAIN rfqs :
             LET as_open == <<[rfqs[r] EXCEPT !.status = "open"]>>
             IN deadline_passed(rfqs[r].deadline, now)
                    <=> close_expired_rfqs(as_open, now)[1].status = "closed")
    /\ [][\A r \in DOMAIN rfqs :
              (rfqs[r].response_locked /\ ~rfqs'[r].response_locked)
                  => close_expired_rfqs(rfqs', now')[r].status # "open"
         ]_vars

\* C29: response_locked of an RFQ goes from FALSE to TRUE only in a successful
\* submit_quotation for that RFQ, and from TRUE to FALSE only when the deadline
\* (written in UTC by invite_suppliers) has passed, either in the deadline
\* sweep, which applies to open RFQs, or in the read-time check of read_rfq.
C29_LockChanges ==
    [][\A r \in DOMAIN rfqs :
           /\ (~rfqs[r].response_locked /\ rfqs'[r].response_locked) =>
                  /\ resp'.op = "submit_quotation"
                  /\ resp'.code = "201"
                  /\ resp'.rfq_id = r
           /\ (rfqs[r].response_locked /\ ~rfqs'[r].response_locked) =>
                  /\ read_as_utc(rfqs[r].deadline) <= now
                  /\ \/ rfqs[r].status = "open"
                     \/ resp' # resp /\ resp'.op = "read_rfq" /\ resp'.rfq_id = r
      ]_vars

\* C31: of two submit requests of one supplier for one RFQ, each of which
\* passed its existing-quotation check before the other committed, at most one
\* commits a quotation.
C31_ConcurrentSubmitOneCommits ==
    ~ \E p \in Sessions, q \in Sessions :
        /\ p # q
        /\ txn[p].op = "submit_quotation" /\ txn[q].op = "submit_quotation"
        /\ txn[p].state = "committed" /\ txn[q].state = "committed"
        /\ txn[p].rfq_id = txn[q].rfq_id
        /\ txn[p].supplier_id = txn[q].supplier_id
        /\ txn[q].overlapped

\* C33: when two invitation rounds for two different RFQs have both committed,
\* the second one having loaded the supplier rows before the first committed,
\* the invitations_sent of every supplier that both invited is two more than
\* the value the first one loaded.
C33_NoLostIncrement ==
    \A p \in Sessions, q \in Sessions, s \in SupplierIds :
        (/\ p # q
         /\ txn[p].op = "invite_suppliers" /\ txn[q].op = "invite_suppliers"
         /\ txn[p].state = "committed" /\ txn[q].state = "committed"
         /\ txn[p].rfq_id # txn[q].rfq_id
         /\ s \in txn[p].supplier_ids \cap txn[q].supplier_ids
         /\ ~txn[p].overlapped /\ txn[q].overlapped)
            => suppliers[s].invitations_sent = txn[p].seen[s] + 2

\* The number of invitation rows a supplier has over the RFQs 1..n
\* (RFQInvitation rows with this supplier_id, models/rfq.py 59-72).
RECURSIVE invitation_rows(_, _, _)
invitation_rows(inv, supplier_id, n) ==
    IF n = 0 THEN 0
    ELSE Len(inv[<<n, supplier_id>>]) + invitation_rows(inv, supplier_id, n - 1)

\* C32: in every committed state a supplier's invitations_sent equals the
\* number of its invitation rows, and last_invited_at is set exactly when
\* that number is greater than zero.
C32_CounterMatchesInvitations ==
    \A s \in SupplierIds :
        LET n == invitation_rows(invitations, s,
                                 Cardinality({p[1] : p \in DOMAIN invitations}))
        IN /\ suppliers[s].invitations_sent = n
           /\ (suppliers[s].last_invited_at # NoTime) <=> (n > 0)

\* C34: a quotation's budget-override justification is append-only: once it
\* is non-empty, every later value of it has the earlier text as a prefix.
C34_JustificationAppendOnly ==
    [][\A q \in 1..Len(quotations) :
          LET old == quotations[q].budget_override_justification
              new == quotations'[q].budget_override_justification
          IN old # NoJustification
                 => /\ Len(new) >= Len(old)
                    /\ SubSeq(new, 1, Len(old)) = old]_vars

\* C35: in every reachable state an RFQ has status awarded if and only if
\* exactly one of its quotations is approved.
C35_AwardedIffOneApproved ==
    \A r \in 1..Len(rfqs) :
        (rfqs[r].status = "awarded")
            <=> (Cardinality({q \in QuotationsOf(r) :
                                 quotations[q].status = "approved"}) = 1)

\* C36: in every reachable state in which an RFQ holds an approved quotation,
\* every other quotation of that RFQ is rejected, and the invitations of the
\* approved quotation's supplier are the only ones with status awarded; so no
\* later submit or override request has brought a sibling back to submitted
\* or pending_finance_approval.
C36_WinnerExcludesSiblings ==
    \A r \in 1..Len(rfqs) : \A w \in QuotationsOf(r) :
        quotations[w].status = "approved" =>
            /\ \A i \in QuotationsOf(r) \ {w} : quotations[i].status = "rejected"
            /\ \A s \in SupplierIds : \A k \in DOMAIN invitations[<<r, s>>] :
                   (invitations[<<r, s>>][k] = "awarded")
                       <=> (s = quotations[w].supplier_id)

\* C37: in every reachable state an RFQ that is open and holds at least one
\* quotation has response_locked = TRUE, also after a closed RFQ with
\* quotations has been re-opened by invite_suppliers or update_rfq.
C37_OpenRfqWithBidsIsLocked ==
    \A r \in 1..Len(rfqs) :
        (rfqs[r].status = "open" /\ QuotationsOf(r) # {})
            => rfqs[r].response_locked

\* C38: no quotation is accepted at or after its RFQ's deadline: every
\* successful submit happens at a time strictly before the deadline the RFQ
\* has at that moment, on an RFQ that is open (a draft, closed or awarded RFQ
\* gains no quotation).  The deadlines of this specification are written by
\* create_rfq and update_rfq, which store the Africa/Cairo wall-clock time, so
\* the instant an RFQ's deadline denotes is read_as_cairo of the stored value.
C38_NoLateQuotation ==
    [][\A s \in SupplierIds, r \in RfqIds, am \in Amounts :
           (submit_quotation(s, r, am) /\ resp'.code = "201") =>
               /\ rfqs[r].status = "open"
               /\ now < read_as_cairo(rfqs[r].deadline)
      ]_vars

\* The sum of the amounts of the supplier's approved quotations among the
\* first n quotations (Quotation.amount, Quotation.status, models/rfq.py 83-121).
RECURSIVE approved_amount(_, _, _)
approved_amount(Q, supplier_id, n) ==
    IF n = 0 THEN 0
    ELSE approved_amount(Q, supplier_id, n - 1)
         + (IF Q[n].supplier_id = supplier_id /\ Q[n].status = "approved"
            THEN Q[n].amount ELSE 0)

\* C39: in every reachable state each supplier's total_awarded_value equals
\* the sum of the amounts of that supplier's quotations that are currently
\* approved.
C39_TotalMatchesApproved ==
    \A s \in SupplierIds :
        suppliers[s].total_awarded_value = approved_amount(quotations, s, Len(quotations))

====
